---- MODULE Spec2Model ----
(***************************************************************************)
(* Model of the snapshot diff and removal-verification engine of the       *)
(* National Academies tracker (src/monitor/*.py).                          *)
(*                                                                         *)
(*   SpecDiff    compute_diff applied to pairs of normalized tables        *)
(*   SpecVerify  verify_removed_rows, one loop iteration per action        *)
(*   Spec        run_all.main, the coordinator loop over the sources       *)
(*   SpecNorm    normalize_df applied to raw tables, once and again        *)
(*   SpecWrite   write_diff_csvs called on one directory                   *)
(*   SpecStore   the directory of one award over collections and runs of   *)
(*               the test runner                                           *)
(*   SpecFair    Spec with the steps of main taken when they can be        *)
(*   SpecDiffAny compute_diff applied to frames with or without key column *)
(*                                                                         *)
(* A DataFrame is a record [cols, rows]: cols the set of column labels,    *)
(* rows the sequence of rows, each row a function from cols to strings.    *)
(***************************************************************************)
EXTENDS Integers, Sequences, FiniteSets, TLC

VARIABLES
  \* ---- compute_diff (diff_utils.py) ----
  diff_pc,        \* "call" before compute_diff is applied, "returned" after
  prev,           \* the caller's previous table
  curr,           \* the caller's current table
  ignore_fields,  \* the ignore_fields argument
  diff,           \* the returned dict {"added", "removed", "modified"}
  \* ---- verify_removed_rows (removal_verifier.py) ----
  ver_pc,         \* "call", "loop" (inside the for loop), "returned"
  award_id,       \* the award_id argument
  removed_df,     \* the removed_df argument
  row_i,          \* position of the for loop in removed_df
  confirmed,      \* the list confirmed
  still_present,  \* the list still_present
  errors,         \* the list errors
  probed,         \* the urls requests.get was called with, in call order
  last_resp,      \* what the last requests.get call produced
  \* ---- main (run_all.py) ----
  pc,             \* position of main
  award_ids,      \* settings: the configured list of awards
  aid_i,          \* position of "for aid in award_ids"
  lines,          \* the report lines
  any_failures,   \* any_failures
  all_diff_files, \* all_diff_files
  last_rc,        \* rc of the scraper of the current award
  last_dir,       \* snapshots/<aid> as the scraper of the current award left it
  prev_path,      \* prev_path
  curr_path,      \* curr_path
  verified,       \* what verify_removed_rows returned for the current award
  steps,          \* per position in award_ids, the steps main has performed
  raised,         \* the <<position, step>> pairs at which an exception was raised
  emitted,        \* how many times the report was sent and printed
  exit_code,      \* the exit status of the process, "none" while it runs
  \* ---- normalize_df (diff_utils.py) ----
  norm_pc,        \* "call", "returned", "returned_again"
  raw,            \* the caller's df argument
  norm_ignored,   \* the ignore_fields argument
  normalized,     \* what normalize_df returned
  \* ---- a directory of snapshots or diff files ----
  store,          \* the directory: [exists, files]
  written,        \* what the last write_diff_csvs call returned
  last_call,      \* the arguments of the last write_diff_csvs call
  loaded,         \* what the last load_latest_two call returned
  calls           \* how many times write_diff_csvs was called

diffVars == <<diff_pc, prev, curr, ignore_fields, diff>>

verVars == <<ver_pc, award_id, removed_df, row_i, confirmed, still_present,
             errors, probed, last_resp>>

mainVars == <<pc, award_ids, aid_i, lines, any_failures, all_diff_files,
              last_rc, last_dir, prev_path, curr_path, verified, steps, raised,
              emitted, exit_code>>

normVars == <<norm_pc, raw, norm_ignored, normalized>>

storeVars == <<store, written, last_call, loaded, calls>>

vars == <<diff_pc, prev, curr, ignore_fields, diff,
          ver_pc, award_id, removed_df, row_i, confirmed, still_present,
          errors, probed, last_resp,
          pc, award_ids, aid_i, lines, any_failures, all_diff_files,
          last_rc, last_dir, prev_path, curr_path, verified, steps, raised,
          emitted, exit_code,
          norm_pc, raw, norm_ignored, normalized,
          store, written, last_call, loaded, calls>>

-----------------------------------------------------------------------------
(* Bounds of the model. *)

MaxRows == 2

MaxRemoved == 2

MaxBody == 2

MaxSources == 2

\* Strings a primary-key cell may hold after normalization ("" when the raw
\* capture had no value).
KeyVals == {"", "k1", "k2"}

\* Strings any other cell may hold.
CellVals == {"", "x"}

\* Non-key columns a capture may carry.
OtherCols == {"name", "location"}

\* The ignore_fields lists tried.
IgnoreChoices == {{}, {"location"}}

-----------------------------------------------------------------------------
(* diff_utils.py: defaults *)

PRIMARY_KEY_DEFAULT == <<"profile_url">>

IGNORE_FIELDS_DEFAULT == {}

-----------------------------------------------------------------------------
(* Helpers for DataFrames *)

Range(s) == {s[i] : i \in DOMAIN s}

\* pd.DataFrame()
EmptyDF == [cols |-> {}, rows |-> <<>>]

\* DataFrame.empty: true when either axis has length 0
IsEmpty(df) == df.cols = {} \/ Len(df.rows) = 0

\* The value of the primary-key columns of a row, as a tuple
KeyOf(row, pk) == [i \in DOMAIN pk |-> row[pk[i]]]

\* The primary-key values of a frame, in row order
KeySeq(df, pk) == [i \in DOMAIN df.rows |-> KeyOf(df.rows[i], pk)]

KeySet(df, pk) == Range(KeySeq(df, pk))

\* df[c] = "" for each c of newcols that is not yet a column of df
WithColumns(df, newcols) ==
  [cols |-> df.cols \cup newcols,
   rows |-> [i \in DOMAIN df.rows |->
               [c \in df.cols \cup newcols |->
                  IF c \in df.cols THEN df.rows[i][c] ELSE ""]]]

\* DataFrame.reindex(columns=cols, fill_value="")
Reindex(df, cols) ==
  [cols |-> cols,
   rows |-> [i \in DOMAIN df.rows |->
               [c \in cols |-> IF c \in df.cols THEN df.rows[i][c] ELSE ""]]]

\* The row of df whose primary key is k (keys are unique after normalization)
RowByKey(df, pk, k) ==
  df.rows[CHOOSE i \in DOMAIN df.rows : KeyOf(df.rows[i], pk) = k]

\* sorted() over the column labels the model uses
ColOrder ==
  <<"location", "location_after", "location_before", "name", "name_after",
    "name_before", "profile_url">>

SortedCols(S) == SelectSeq(ColOrder, LAMBDA c : c \in S)

-----------------------------------------------------------------------------
(* diff_utils.py: _align_columns_for_compare *)

\* compare_cols.remove(k); compare_cols.insert(0, k), for each k of key_cols
RECURSIVE PinKeys(_, _, _)
PinKeys(cols, key_cols, i) ==
  IF i > Len(key_cols) THEN cols
  ELSE PinKeys(<<key_cols[i]>> \o SelectSeq(cols, LAMBDA c : c # key_cols[i]),
               key_cols, i + 1)

\* CompareCols that leaves the ignored fields among the compared columns
CompareCols_KeepIgnored(p, c, key_cols, ignored) ==
  PinKeys(SortedCols(p.cols \cup c.cols), key_cols, 1)

\* CompareCols over the columns the two frames share, not over their union
CompareCols_SharedOnly(p, c, key_cols, ignored) ==
  LET all_cols == SortedCols(p.cols \cap c.cols)
      compare_cols == SelectSeq(all_cols, LAMBDA x : x \notin ignored)
  IN  PinKeys(compare_cols, key_cols, 1)

CompareCols(p, c, key_cols, ignored) ==
  LET all_cols == SortedCols(p.cols \cup c.cols)
      compare_cols == SelectSeq(all_cols, LAMBDA x : x \notin ignored)
  IN  PinKeys(compare_cols, key_cols, 1)

-----------------------------------------------------------------------------
(* diff_utils.py: compute_diff *)

\* LeftOnly without the selection on the merge indicator
LeftOnly_Unfiltered(left, right, pk) == left

\* curr.merge(prev[pk].drop_duplicates(), how="left", indicator=True), then the
\* rows marked left_only, restricted to the columns of the left frame
LeftOnly(left, right, pk) ==
  [cols |-> left.cols,
   rows |-> SelectSeq(left.rows,
                      LAMBDA r : KeyOf(r, pk) \notin KeySet(right, pk))]

\* prev_cmp_idx.index.intersection(curr_cmp_idx.index): the keys of both, in
\* the order of the left index
CommonIdx(p, c, pk) ==
  SelectSeq(KeySeq(p, pk), LAMBDA k : k \in KeySet(c, pk))

\* ChangedKeys without the comparison: every key of both frames
ChangedKeys_AllShared(p, c, pk, ignored) == CommonIdx(p, c, pk)

\* (prev_common != curr_common).any(axis=1), then common_idx[changed_mask]
ChangedKeys(p, c, pk, ignored) ==
  LET compare_cols == Range(CompareCols(p, c, pk, ignored))
      prev_cmp == Reindex(p, compare_cols)
      curr_cmp == Reindex(c, compare_cols)
  IN  SelectSeq(CommonIdx(prev_cmp, curr_cmp, pk),
                LAMBDA k : \E x \in compare_cols :
                   RowByKey(prev_cmp, pk, k)[x] # RowByKey(curr_cmp, pk, k)[x])

\* The column labels of prev_full.merge(curr_full, on=pk,
\* suffixes=("_before", "_after")): the key columns once, a column of both
\* frames twice with the suffixes, a column of one frame only once, unsuffixed
MergedCols(p, c, pk) ==
  LET both == (p.cols \cap c.cols) \ Range(pk)
  IN  Range(pk) \cup {x \o "_before" : x \in both}
                \cup {x \o "_after" : x \in both}
                \cup (p.cols \ c.cols) \cup (c.cols \ p.cols)

\* MergedRow that takes the _after values from the previous row as well
MergedRow_AfterFromPrev(p, c, pk, k) ==
  LET both == (p.cols \cap c.cols) \ Range(pk)
      pr == RowByKey(p, pk, k)
      cr == RowByKey(c, pk, k)
  IN  [n \in MergedCols(p, c, pk) |->
         IF n \in p.cols \ both THEN pr[n]
         ELSE IF n \in c.cols \ both THEN cr[n]
         ELSE IF \E x \in both : n = x \o "_before"
              THEN pr[CHOOSE x \in both : n = x \o "_before"]
              ELSE pr[CHOOSE x \in both : n = x \o "_after"]]

\* The row of prev_full.merge(curr_full, on=pk, suffixes=("_before",
\* "_after")) for the key k
MergedRow(p, c, pk, k) ==
  LET both == (p.cols \cap c.cols) \ Range(pk)
      pr == RowByKey(p, pk, k)
      cr == RowByKey(c, pk, k)
  IN  [n \in MergedCols(p, c, pk) |->
         IF n \in p.cols \ both THEN pr[n]
         ELSE IF n \in c.cols \ both THEN cr[n]
         ELSE IF \E x \in both : n = x \o "_before"
              THEN pr[CHOOSE x \in both : n = x \o "_before"]
              ELSE cr[CHOOSE x \in both : n = x \o "_after"]]

Modified(p, c, pk, ignored) ==
  LET changed_keys == ChangedKeys(p, c, pk, ignored)
  IN  IF Len(changed_keys) = 0 THEN EmptyDF
      ELSE [cols |-> MergedCols(p, c, pk),
            rows |-> [i \in DOMAIN changed_keys |->
                        MergedRow(p, c, pk, changed_keys[i])]]

\* The frames compute_diff works on after "for k in pk: prev[k] = ''": the
\* assignment is made on the caller's frames, and only past the early returns
PrevAfterCall(p, c, pk) ==
  IF IsEmpty(p) \/ IsEmpty(c) THEN p ELSE WithColumns(p, Range(pk) \ p.cols)

CurrAfterCall(p, c, pk) ==
  IF IsEmpty(p) \/ IsEmpty(c) THEN c ELSE WithColumns(c, Range(pk) \ c.cols)

compute_diff(p, c, primary_key, ignored) ==
  LET pk == IF Len(primary_key) = 0 THEN PRIMARY_KEY_DEFAULT ELSE primary_key
      ign == IF ignored = {} THEN IGNORE_FIELDS_DEFAULT ELSE ignored
      p1 == PrevAfterCall(p, c, pk)
      c1 == CurrAfterCall(p, c, pk)
  IN  IF IsEmpty(p) /\ IsEmpty(c)
        THEN [added |-> EmptyDF, removed |-> EmptyDF, modified |-> EmptyDF]
      ELSE IF IsEmpty(p)
        THEN [added |-> c, removed |-> EmptyDF, modified |-> EmptyDF]
      ELSE IF IsEmpty(c)
        THEN [added |-> EmptyDF, removed |-> p, modified |-> EmptyDF]
      ELSE [added |-> LeftOnly(c1, p1, pk),
            removed |-> LeftOnly(p1, c1, pk),
            modified |-> Modified(p1, c1, pk, ign)]

-----------------------------------------------------------------------------
(* diff_utils.py: normalize_df *)

\* _collapse_ws that takes one blank away per call
_collapse_ws_DropsOneBlank(v) ==
  CASE v = " x" -> "x"
    [] v = "x " -> "x"
    [] v = "x  y" -> "x y"
    [] v = "x y" -> "xy"
    [] v = " " -> ""
    [] OTHER -> v

\* _collapse_ws on the strings the model's raw captures hold: strip, then
\* every run of whitespace becomes one space
_collapse_ws(v) ==
  CASE v = " x" -> "x"
    [] v = "x " -> "x"
    [] v = "x  y" -> "x y"
    [] v = " " -> ""
    [] OTHER -> v

\* DropDuplicates that keeps every row
DropDuplicates_None(df, key_cols) == df

\* drop_duplicates(subset=key_cols, keep="first")
DropDuplicates(df, key_cols) ==
  LET firsts == {i \in DOMAIN df.rows :
                   \A j \in 1..(i - 1) :
                      KeyOf(df.rows[j], key_cols) # KeyOf(df.rows[i], key_cols)}
      Keep[i \in 0..Len(df.rows)] ==
        IF i = 0 THEN <<>>
        ELSE IF i \in firsts THEN Append(Keep[i - 1], df.rows[i])
        ELSE Keep[i - 1]
  IN  [cols |-> df.cols, rows |-> Keep[Len(df.rows)]]

normalize_df(df, key_cols, ignored) ==
  IF IsEmpty(df) THEN [cols |-> Range(key_cols), rows |-> <<>>]
  ELSE LET d1 == WithColumns(df, Range(key_cols) \ df.cols)
           d2 == [cols |-> d1.cols,
                  rows |-> [i \in DOMAIN d1.rows |->
                              [c \in d1.cols |-> _collapse_ws(d1.rows[i][c])]]]
           d3 == DropDuplicates(d2, key_cols)
       IN  WithColumns(d3, ignored \ d3.cols)

-----------------------------------------------------------------------------
(* The tables normalize_df can return, within the bounds *)

RowsOver(cols) ==
  {[c \in cols |-> IF c = "profile_url" THEN k ELSE f[c]] :
     k \in KeyVals, f \in [cols \ {"profile_url"} -> CellVals]}

UniqueKeys(rows) ==
  \A i, j \in DOMAIN rows :
     i # j => rows[i]["profile_url"] # rows[j]["profile_url"]

NormalizedTables ==
  {EmptyDF, [cols |-> {"profile_url"}, rows |-> <<>>]} \cup
  UNION {
    {[cols |-> {"profile_url"} \cup S, rows |-> rs] :
       rs \in {r \in UNION {[1..n -> RowsOver({"profile_url"} \cup S)] :
                              n \in 1..MaxRows} : UniqueKeys(r)}} :
    S \in SUBSET OtherCols}

NoDiff == [added |-> EmptyDF, removed |-> EmptyDF, modified |-> EmptyDF]

-----------------------------------------------------------------------------
(* removal_verifier.py: the probe and its classification *)

\* The pieces of page text the model builds response bodies from
BodyChunks == {"Page Not Found", "page cannot be found", "member profile"}

\* The page text taken as it is, not lowered
Lower_Identity(chunk) == chunk

\* str.lower() on one piece of page text
Lower(chunk) ==
  CASE chunk = "Page Not Found" -> "page not found"
    [] OTHER -> chunk

\* resp.text.lower()
LowerText(text) == [i \in DOMAIN text |-> Lower(text[i])]

_NAE_MISSING_MARKERS ==
  {"page you are looking for might have been removed",
   "resource you are looking for has been removed",
   "page cannot be found"}

_NAM_MISSING_MARKERS == {"page not found"}

_NAS_MISSING_MARKERS == {"page not found"}

\* _AWARD_VERIFIERS: the award ids with a registered verifier
RegisteredAwards == {"3008", "1909", "2023"}

\* The markers the registered verifier of an award passes to _generic_verifier
AwardMarkers(aid) ==
  CASE aid = "3008" -> _NAE_MISSING_MARKERS
    [] aid = "1909" -> _NAM_MISSING_MARKERS
    [] aid = "2023" -> _NAS_MISSING_MARKERS
    [] OTHER -> {}

\* What requests.get can produce: a response (status code, body) or a
\* RequestException
StatusCodes == {200, 404, 500}

RequestErrors == {"timeout", "connection refused"}

Bodies == UNION {[1..n -> BodyChunks] : n \in 0..MaxBody}

NoResp == [kind |-> "none", status_code |-> 0, text |-> <<>>, error |-> ""]

Responses ==
  {[kind |-> "response", status_code |-> sc, text |-> b, error |-> ""] :
     sc \in StatusCodes, b \in Bodies}
  \cup
  {[kind |-> "exception", status_code |-> 0, text |-> <<>>, error |-> e] :
     e \in RequestErrors}

\* _http_get: (resp, None), or (None, str(exc)) on a RequestException
HttpGetFailed(r) == r.kind = "exception"

\* any(marker in text_lower for marker in markers)
MarkerInText(text, markers) ==
  \E i \in DOMAIN text : LowerText(text)[i] \in markers

\* _response_indicates_missing
ResponseIndicatesMissing(r, markers) ==
  \/ r.status_code = 404
  \/ MarkerInText(r.text, markers)

\* _generic_verifier that reports a 200 page without a marker as unknown
GenericVerifier_200Unknown(r, markers) ==
  IF HttpGetFailed(r)
    THEN [verdict |-> "None", detail |-> "request_error=" \o r.error]
  ELSE IF ResponseIndicatesMissing(r, markers)
    THEN [verdict |-> "True", detail |-> "status=" \o ToString(r.status_code)]
  ELSE [verdict |-> "None", detail |-> "status=" \o ToString(r.status_code)]

\* _generic_verifier that takes every answered request for a live page
GenericVerifier_AnyStatusLive(r, markers) ==
  IF HttpGetFailed(r)
    THEN [verdict |-> "None", detail |-> "request_error=" \o r.error]
  ELSE IF ResponseIndicatesMissing(r, markers)
    THEN [verdict |-> "True", detail |-> "status=" \o ToString(r.status_code)]
  ELSE [verdict |-> "False", detail |-> "status=" \o ToString(r.status_code)]

\* _generic_verifier: the (verdict, detail) pair for what the probe produced
GenericVerifier(r, markers) ==
  IF HttpGetFailed(r)
    THEN [verdict |-> "None", detail |-> "request_error=" \o r.error]
  ELSE IF ResponseIndicatesMissing(r, markers)
    THEN [verdict |-> "True", detail |-> "status=" \o ToString(r.status_code)]
  ELSE IF r.status_code = 200
    THEN [verdict |-> "False", detail |-> "status=200"]
  ELSE [verdict |-> "None", detail |-> "status=" \o ToString(r.status_code)]

-----------------------------------------------------------------------------
(* removal_verifier.py: verify_removed_rows *)

\* row[key] = value on a dict
SetItem(row, key, value) ==
  [c \in DOMAIN row \cup {key} |-> IF c = key THEN value ELSE row[c]]

\* row.get("profile_url", "")
RowUrl(row) == IF "profile_url" \in DOMAIN row THEN row["profile_url"] ELSE ""

\* A loop body in which a failed request drops what the rows before it got
AfterProbe_FailureResetsBatch(lists, row, aid, r) ==
  LET res == GenericVerifier(r, AwardMarkers(aid))
      row1 == SetItem(row, "double_check_detail", res.detail)
  IN  IF res.verdict = "True"
        THEN [lists EXCEPT !.confirmed =
                Append(@, SetItem(row1, "double_check_status", "confirmed_missing"))]
      ELSE IF res.verdict = "False"
        THEN [lists EXCEPT !.still_present =
                Append(@, SetItem(row1, "double_check_status", "still_present"))]
      ELSE [confirmed |-> <<SetItem(row1, "double_check_status", "check_error")>>,
            still_present |-> <<>>,
            errors |-> <<SetItem(row1, "double_check_status", "check_error")>>]

\* A loop body that puts a row whose check failed in errors only
AfterProbe_ErrorOnlyInErrors(lists, row, aid, r) ==
  LET res == GenericVerifier(r, AwardMarkers(aid))
      row1 == SetItem(row, "double_check_detail", res.detail)
  IN  IF res.verdict = "True"
        THEN [lists EXCEPT !.confirmed =
                Append(@, SetItem(row1, "double_check_status", "confirmed_missing"))]
      ELSE IF res.verdict = "False"
        THEN [lists EXCEPT !.still_present =
                Append(@, SetItem(row1, "double_check_status", "still_present"))]
      ELSE [lists EXCEPT
              !.errors = Append(@, SetItem(row1, "double_check_status", "check_error"))]

\* The three lists after the loop body has run on one row that has a url and a
\* registered verifier, the probe having produced r
AfterProbe(lists, row, aid, r) ==
  LET res == GenericVerifier(r, AwardMarkers(aid))
      row1 == SetItem(row, "double_check_detail", res.detail)
  IN  IF res.verdict = "True"
        THEN [lists EXCEPT !.confirmed =
                Append(@, SetItem(row1, "double_check_status", "confirmed_missing"))]
      ELSE IF res.verdict = "False"
        THEN [lists EXCEPT !.still_present =
                Append(@, SetItem(row1, "double_check_status", "still_present"))]
      ELSE [lists EXCEPT
              !.errors = Append(@, SetItem(row1, "double_check_status", "check_error")),
              !.confirmed = Append(@, SetItem(row1, "double_check_status", "check_error"))]

\* The loop body on a row with no url
AfterNoUrl(lists, row) ==
  [lists EXCEPT !.confirmed =
     Append(@, SetItem(row, "double_check_status", "no_url"))]

\* The loop body on a row with a url when the award has no verifier: the row is
\* left out of every list
AfterNotSupported_Dropped(lists, row) == lists

\* The loop body on a row with a url when the award has no verifier
AfterNotSupported(lists, row) ==
  [lists EXCEPT !.confirmed =
     Append(@, SetItem(row, "double_check_status", "not_supported"))]

\* A loop body that calls a verifier on every row with a url, whatever the
\* award
IssuesProbe_AnyAward(aid, row) == RowUrl(row) # ""

\* Whether the loop body calls the verifier on the row
IssuesProbe(aid, row) == RowUrl(row) # "" /\ aid \in RegisteredAwards

\* One iteration of "for row in removed_df.to_dict(orient='records')"; r is
\* what the probe produces when one is issued
LoopBody(lists, row, aid, r) ==
  IF RowUrl(row) = "" THEN AfterNoUrl(lists, row)
  ELSE IF aid \notin RegisteredAwards THEN AfterNotSupported(lists, row)
  ELSE AfterProbe(lists, row, aid, r)

NoLists == [confirmed |-> <<>>, still_present |-> <<>>, errors |-> <<>>]

\* The cell pandas gives a record that lacks a column of the frame
NaN == "<NaN>"

\* pd.DataFrame(list of dicts): the columns are the union of the keys
DataFrameOf(records) ==
  LET cols == UNION {DOMAIN records[i] : i \in DOMAIN records}
  IN  [cols |-> cols,
       rows |-> [i \in DOMAIN records |->
                   [c \in cols |-> IF c \in DOMAIN records[i]
                                     THEN records[i][c] ELSE NaN]]]

\* The for loop from row i on; resps[i] is what the probe of row i produces
RECURSIVE LoopFrom(_, _, _, _, _)
LoopFrom(lists, rows, i, aid, resps) ==
  IF i > Len(rows) THEN lists
  ELSE LoopFrom(LoopBody(lists, rows[i], aid, resps[i]), rows, i + 1, aid, resps)

\* verify_removed_rows as one call: the tuple (confirmed, still_present, errors)
verify_removed_rows(aid, df, resps) ==
  IF IsEmpty(df)
    THEN [confirmed |-> EmptyDF, still_present |-> EmptyDF, errors |-> EmptyDF]
  ELSE LET lists == LoopFrom(NoLists, df.rows, 1, aid, resps)
       IN  [confirmed |-> DataFrameOf(lists.confirmed),
            still_present |-> DataFrameOf(lists.still_present),
            errors |-> DataFrameOf(lists.errors)]

-----------------------------------------------------------------------------
(* run_all.py: configuration *)

\* AWARD_MODULES: the award ids with a scraper module
AWARD_MODULES == {"3008", "1909", "2023"}

DEFAULT_IGNORE_FIELDS == {"location"}

\* "if time_diff > 3600": seconds
MaxSnapshotAge == 3600

-----------------------------------------------------------------------------
(* The directory snapshots/<aid> *)

\* A file of the directory is [stamp, tail, age, content]: its name is
\* stamp \o tail, age is scraper_start_time minus its mtime in seconds (below
\* zero for a file written during this run of the scraper), content is what
\* pd.read_csv makes of it.
FileName(f) == f.stamp \o f.tail

ZeroBytes == [kind |-> "zero_bytes", table |-> EmptyDF]

Unreadable == [kind |-> "unreadable", table |-> EmptyDF]

Csv(cols, rows) == [kind |-> "csv", table |-> [cols |-> cols, rows |-> rows]]

Member(url, name) == [profile_url |-> url, name |-> name]

\* The captures the model's scrapers write
HeaderOnly == Csv({"profile_url", "name"}, <<>>)

CaptureA == Csv({"profile_url", "name"}, <<Member("u1", "x")>>)

CaptureB ==
  Csv({"profile_url", "name"}, <<Member("u1", " x"), Member("u2", "x")>>)

CaptureC ==
  Csv({"profile_url", "name"}, <<Member("u1", "y"), Member("", "x")>>)

OldestFiles ==
  {[stamp |-> "20250105_090000", tail |-> ".csv", age |-> 1209600,
    content |-> CaptureB]}

EarlierFiles ==
  {[stamp |-> "20250112_090000", tail |-> ".csv", age |-> a, content |-> c] :
     a \in {604800, 1800}, c \in {CaptureA, CaptureB, CaptureC, Unreadable}}

NewFiles ==
  {[stamp |-> "20250119_090000", tail |-> ".csv", age |-> -60, content |-> c] :
     c \in {ZeroBytes, Unreadable, HeaderOnly, CaptureA, CaptureC}}

\* A csv file of the directory whose name does not start with a timestamp,
\* the case lines 358-362 of run_all.py provide for: the flat CSV nam.py
\* writes after its snapshot when its runtime defines "filepath" as a path
\* into the directory, or a file put there by hand
LegacyFiles ==
  {[stamp |-> "members", tail |-> ".csv", age |-> -30, content |-> CaptureA]}

NoDir == [exists |-> FALSE, files |-> {}]

AtMostOne(S) == {{}} \cup {{x} : x \in S}

\* The states the scraper of an award can leave snapshots/<aid> in
DirStates ==
  {NoDir} \cup
  {[exists |-> TRUE, files |-> f1 \cup f2 \cup f3 \cup f4] :
     f1 \in AtMostOne(OldestFiles), f2 \in AtMostOne(EarlierFiles),
     f3 \in AtMostOne(NewFiles), f4 \in AtMostOne(LegacyFiles)}

\* The capture timestamps of the model, oldest first
Stamps == <<"20250105_090000", "20250112_090000", "20250119_090000">>

\* What follows the timestamp in the name of a file, in the order sorted()
\* gives: "." sorts before "_", so a snapshot comes before the diff files
\* written next to it
TailOrder ==
  <<".csv",
    "__added.csv", "__added__added.csv", "__added__modified.csv",
    "__added__removed.csv",
    "__modified.csv", "__modified__added.csv", "__modified__modified.csv",
    "__modified__removed.csv",
    "__removed.csv", "__removed__added.csv", "__removed__modified.csv",
    "__removed__removed.csv">>

\* sorted() over the file names the model uses: a letter sorts after every
\* digit
NameOrder ==
  [i \in 1..(Len(Stamps) * Len(TailOrder)) |->
     Stamps[((i - 1) \div Len(TailOrder)) + 1]
       \o TailOrder[((i - 1) % Len(TailOrder)) + 1]]
    \o <<"members.csv">>

\* list_snapshots: sorted(p for p in d.glob("*.csv")), [] without directory
list_snapshots(dir) ==
  IF ~dir.exists THEN <<>>
  ELSE LET names == SelectSeq(NameOrder,
                       LAMBDA n : \E f \in dir.files : FileName(f) = n)
       IN  [i \in DOMAIN names |->
              CHOOSE f \in dir.files : FileName(f) = names[i]]

\* pd.read_csv raises on the file
ReadFails(f) == f.content.kind \in {"zero_bytes", "unreadable"}

-----------------------------------------------------------------------------
(* run_all.py: validate_scraper_output *)

\* max(csv_files, key=lambda p: p.stat().st_mtime)
LatestByMtime(dir) ==
  CHOOSE f \in dir.files : \A g \in dir.files : f.age <= g.age

\* validate_scraper_output that does not look at the number of rows
validate_scraper_output_NoRowCheck(dir, scraper_rc) ==
  IF ~dir.exists THEN [ok |-> FALSE, msg |-> "no snapshots directory"]
  ELSE IF dir.files = {} THEN [ok |-> FALSE, msg |-> "no csv files"]
  ELSE LET latest_file == LatestByMtime(dir)
       IN  IF scraper_rc = 0 /\ latest_file.age > MaxSnapshotAge
             THEN [ok |-> FALSE, msg |-> "created before scraper run started"]
           ELSE IF latest_file.content.kind = "zero_bytes"
             THEN [ok |-> FALSE, msg |-> "csv is empty"]
           ELSE IF ReadFails(latest_file)
             THEN [ok |-> FALSE, msg |-> "failed to read csv"]
           ELSE [ok |-> TRUE, msg |-> "valid csv"]

\* validate_scraper_output: (success, diagnostic_message)
validate_scraper_output(dir, scraper_rc) ==
  IF ~dir.exists THEN [ok |-> FALSE, msg |-> "no snapshots directory"]
  ELSE IF dir.files = {} THEN [ok |-> FALSE, msg |-> "no csv files"]
  ELSE LET latest_file == LatestByMtime(dir)
       IN  IF scraper_rc = 0 /\ latest_file.age > MaxSnapshotAge
             THEN [ok |-> FALSE, msg |-> "created before scraper run started"]
           ELSE IF latest_file.content.kind = "zero_bytes"
             THEN [ok |-> FALSE, msg |-> "csv is empty"]
           ELSE IF ReadFails(latest_file)
             THEN [ok |-> FALSE, msg |-> "failed to read csv"]
           ELSE IF Len(latest_file.content.table.rows) = 0
             THEN [ok |-> FALSE, msg |-> "csv has no data rows"]
           ELSE [ok |-> TRUE, msg |-> "valid csv"]

-----------------------------------------------------------------------------
(* diff_utils.py: load_latest_two *)

NoPath == [stamp |-> "", tail |-> ""]

PathOf(f) == [stamp |-> f.stamp, tail |-> f.tail]

\* load_latest_two: (prev_df, curr_df, prev_path, curr_path), or an exception
\* of pd.read_csv
load_latest_two(dir, primary_key, ignored) ==
  LET pk == IF Len(primary_key) = 0 THEN PRIMARY_KEY_DEFAULT ELSE primary_key
      snaps == list_snapshots(dir)
      n == Len(snaps)
  IN  IF n = 0
        THEN [raises |-> FALSE, prev |-> EmptyDF, curr |-> EmptyDF,
              prev_path |-> NoPath, curr_path |-> NoPath]
      ELSE IF n = 1
        THEN IF ReadFails(snaps[n])
               THEN [raises |-> TRUE, prev |-> EmptyDF, curr |-> EmptyDF,
                     prev_path |-> NoPath, curr_path |-> NoPath]
             ELSE [raises |-> FALSE, prev |-> EmptyDF,
                   curr |-> normalize_df(snaps[n].content.table, pk, ignored),
                   prev_path |-> NoPath, curr_path |-> PathOf(snaps[n])]
      ELSE IF ReadFails(snaps[n - 1]) \/ ReadFails(snaps[n])
        THEN [raises |-> TRUE, prev |-> EmptyDF, curr |-> EmptyDF,
              prev_path |-> NoPath, curr_path |-> NoPath]
      ELSE [raises |-> FALSE,
            prev |-> normalize_df(snaps[n - 1].content.table, pk, ignored),
            curr |-> normalize_df(snaps[n].content.table, pk, ignored),
            prev_path |-> PathOf(snaps[n - 1]),
            curr_path |-> PathOf(snaps[n])]

-----------------------------------------------------------------------------
(* diff_utils.py: diff_summary_str, write_diff_csvs *)

\* diff_summary_str: "+a / -r / ~m"
diff_summary_str(d) ==
  "+" \o ToString(Len(d.added.rows)) \o " / -" \o ToString(Len(d.removed.rows))
      \o " / ~" \o ToString(Len(d.modified.rows))

\* write_diff_csvs: the paths written, one per non-empty partition
write_diff_csvs(d, out_prefix) ==
  (IF ~IsEmpty(d.added) THEN <<out_prefix \o "__added.csv">> ELSE <<>>)
  \o (IF ~IsEmpty(d.removed) THEN <<out_prefix \o "__removed.csv">> ELSE <<>>)
  \o (IF ~IsEmpty(d.modified) THEN <<out_prefix \o "__modified.csv">> ELSE <<>>)

-----------------------------------------------------------------------------
(* run_all.py: main, the part of the loop body that follows the scraper *)

\* The names curr_path.name.endswith(...) rejects as no snapshot
NotASnapshotTail(tail) ==
  tail \in {"__removed.csv", "__added.csv", "__modified.csv", ".log"}

\* The names of the model that datetime.strptime(base_name[:15],
\* "%Y%m%d_%H%M%S") accepts
IsTimestamp(stamp) ==
  stamp \in {"20250105_090000", "20250112_090000", "20250119_090000"}

\* base_name: the snapshot's timestamp, or the time of the run when the name
\* of the snapshot does not start with one
BaseName(path, now) == IF IsTimestamp(path.stamp) THEN path.stamp ELSE now

\* main, lines 282-332, where a load failure leaves any_failures alone
AfterScraper_LoadFailureNotCounted(aid, rc, dir, ignored) ==
  LET v == validate_scraper_output(dir, rc)
      l == load_latest_two(dir, <<>>, ignored)
      Stop(status, failed) ==
        [status |-> status, failed |-> failed, go_on |-> FALSE, load |-> l,
         detail |-> v.msg]
  IN  IF rc # 0 THEN Stop("scraper_failed", TRUE)
      ELSE IF ~v.ok THEN Stop("output_invalid", TRUE)
      ELSE IF l.raises THEN Stop("load_failed", FALSE)
      ELSE IF l.curr_path = NoPath THEN Stop("no_snapshots", FALSE)
      ELSE IF NotASnapshotTail(l.curr_path.tail) THEN Stop("skipped", FALSE)
      ELSE IF l.prev_path = NoPath THEN Stop("first_snapshot", FALSE)
      ELSE [status |-> "loaded", failed |-> FALSE, go_on |-> TRUE, load |-> l,
            detail |-> v.msg]

\* main, lines 282-332, where a first snapshot counts as a failure
AfterScraper_FirstSnapshotFails(aid, rc, dir, ignored) ==
  LET v == validate_scraper_output(dir, rc)
      l == load_latest_two(dir, <<>>, ignored)
      Stop(status, failed) ==
        [status |-> status, failed |-> failed, go_on |-> FALSE, load |-> l,
         detail |-> v.msg]
  IN  IF rc # 0 THEN Stop("scraper_failed", TRUE)
      ELSE IF ~v.ok THEN Stop("output_invalid", TRUE)
      ELSE IF l.raises THEN Stop("load_failed", TRUE)
      ELSE IF l.curr_path = NoPath THEN Stop("no_snapshots", FALSE)
      ELSE IF NotASnapshotTail(l.curr_path.tail) THEN Stop("skipped", FALSE)
      ELSE IF l.prev_path = NoPath THEN Stop("first_snapshot", TRUE)
      ELSE [status |-> "loaded", failed |-> FALSE, go_on |-> TRUE, load |-> l,
            detail |-> v.msg]

\* main, lines 282-332: what the loop body decides once the scraper has
\* returned rc and left dir: the status of the report line it appends and
\* whether it sets any_failures, or that it goes on to the diff
AfterScraper(aid, rc, dir, ignored) ==
  LET v == validate_scraper_output(dir, rc)
      l == load_latest_two(dir, <<>>, ignored)
      Stop(status, failed) ==
        [status |-> status, failed |-> failed, go_on |-> FALSE, load |-> l,
         detail |-> v.msg]
  IN  IF rc # 0 THEN Stop("scraper_failed", TRUE)
      ELSE IF ~v.ok THEN Stop("output_invalid", TRUE)
      ELSE IF l.raises THEN Stop("load_failed", TRUE)
      ELSE IF l.curr_path = NoPath THEN Stop("no_snapshots", FALSE)
      ELSE IF NotASnapshotTail(l.curr_path.tail) THEN Stop("skipped", FALSE)
      ELSE IF l.prev_path = NoPath THEN Stop("first_snapshot", FALSE)
      ELSE [status |-> "loaded", failed |-> FALSE, go_on |-> TRUE, load |-> l,
            detail |-> v.msg]

\* main, line 341, where the removed partition stays as the diff returned it
AfterVerification_Unverified(d, outcome) == d

\* main, line 341: diff["removed"] = removed_verified
AfterVerification(d, outcome) == [d EXCEPT !.removed = outcome.confirmed]

\* A report line: the award it is about and what it says
Line(aid, status, detail) == [aid |-> aid, status |-> status, detail |-> detail]

\* lines = [f"Run at {run_ts}\n"]
HeaderLine == Line("", "run_at", "")

NoOutcome == [confirmed |-> EmptyDF, still_present |-> EmptyDF,
              errors |-> EmptyDF]

NormIdle ==
  /\ norm_pc = "idle"
  /\ raw = EmptyDF
  /\ norm_ignored = {}
  /\ normalized = EmptyDF

NoCall == [diff |-> NoDiff, prefix |-> "", repeated |-> FALSE]

NoLoad == [raises |-> FALSE, prev |-> EmptyDF, curr |-> EmptyDF,
           prev_path |-> NoPath, curr_path |-> NoPath, called |-> FALSE]

StoreIdle ==
  /\ store = NoDir
  /\ written = <<>>
  /\ last_call = NoCall
  /\ loaded = NoLoad
  /\ calls = 0

MainIdle ==
  /\ pc = "idle"
  /\ award_ids = <<>>
  /\ aid_i = 0
  /\ lines = <<>>
  /\ any_failures = FALSE
  /\ all_diff_files = <<>>
  /\ last_rc = 0
  /\ last_dir = NoDir
  /\ prev_path = NoPath
  /\ curr_path = NoPath
  /\ verified = NoOutcome
  /\ steps = <<>>
  /\ raised = {}
  /\ emitted = 0
  /\ exit_code = "none"

-----------------------------------------------------------------------------
(* SpecVerify: verify_removed_rows, one loop iteration per action *)

AwardIds == RegisteredAwards \cup {"9999"}

UrlVals == {"", "u1", "u2"}

\* The removed frames tried: with a profile_url column, no two rows with the
\* same url (what compute_diff returns), or without that column
RemovedTables ==
  {EmptyDF} \cup
  {[cols |-> {"profile_url", "name"}, rows |-> rs] :
     rs \in {r \in UNION {[1..n -> [profile_url : UrlVals, name : CellVals]] :
                            n \in 0..MaxRemoved} :
               \A i, j \in DOMAIN r : i # j => RowUrl(r[i]) # RowUrl(r[j])}}
  \cup
  {[cols |-> {"name"}, rows |-> rs] :
     rs \in UNION {[1..n -> [name : CellVals]] : n \in 1..MaxRemoved}}

VerIdle ==
  /\ ver_pc = "idle"
  /\ award_id = ""
  /\ removed_df = EmptyDF
  /\ row_i = 0
  /\ confirmed = <<>>
  /\ still_present = <<>>
  /\ errors = <<>>
  /\ probed = <<>>
  /\ last_resp = NoResp

DiffIdle ==
  /\ diff_pc = "idle"
  /\ prev = EmptyDF
  /\ curr = EmptyDF
  /\ ignore_fields = {}
  /\ diff = NoDiff

InitVerify ==
  /\ DiffIdle
  /\ MainIdle
  /\ NormIdle
  /\ StoreIdle
  /\ ver_pc = "call"
  /\ award_id \in AwardIds
  /\ removed_df \in RemovedTables
  /\ row_i = 0
  /\ confirmed = <<>>
  /\ still_present = <<>>
  /\ errors = <<>>
  /\ probed = <<>>
  /\ last_resp = NoResp

\* "if removed_df is None or removed_df.empty: return empty, empty, empty"
VerifyEmpty ==
  /\ ver_pc = "call"
  /\ IsEmpty(removed_df)
  /\ ver_pc' = "returned"
  /\ UNCHANGED <<award_id, removed_df, row_i, confirmed, still_present,
                 errors, probed, last_resp>>
  /\ UNCHANGED diffVars
  /\ UNCHANGED mainVars
  /\ UNCHANGED normVars
  /\ UNCHANGED storeVars

\* Entry into the for loop
VerifyEnter ==
  /\ ver_pc = "call"
  /\ ~IsEmpty(removed_df)
  /\ ver_pc' = "loop"
  /\ row_i' = 1
  /\ UNCHANGED <<award_id, removed_df, confirmed, still_present, errors,
                 probed, last_resp>>
  /\ UNCHANGED diffVars
  /\ UNCHANGED mainVars
  /\ UNCHANGED normVars
  /\ UNCHANGED storeVars

Lists == [confirmed |-> confirmed, still_present |-> still_present,
          errors |-> errors]

\* A loop iteration that issues no probe (no url, or no verifier)
VerifyRowNoProbe ==
  /\ ver_pc = "loop"
  /\ row_i <= Len(removed_df.rows)
  /\ ~IssuesProbe(award_id, removed_df.rows[row_i])
  /\ LET after == LoopBody(Lists, removed_df.rows[row_i], award_id, NoResp)
     IN  /\ confirmed' = after.confirmed
         /\ still_present' = after.still_present
         /\ errors' = after.errors
  /\ last_resp' = NoResp
  /\ row_i' = row_i + 1
  /\ UNCHANGED <<ver_pc, award_id, removed_df, probed>>
  /\ UNCHANGED diffVars
  /\ UNCHANGED mainVars
  /\ UNCHANGED normVars
  /\ UNCHANGED storeVars

\* A loop iteration that calls the verifier: one requests.get, whose outcome
\* the environment chooses
VerifyRowProbe ==
  /\ ver_pc = "loop"
  /\ row_i <= Len(removed_df.rows)
  /\ IssuesProbe(award_id, removed_df.rows[row_i])
  /\ \E r \in Responses :
       /\ LET after == LoopBody(Lists, removed_df.rows[row_i], award_id, r)
          IN  /\ confirmed' = after.confirmed
              /\ still_present' = after.still_present
              /\ errors' = after.errors
       /\ last_resp' = r
  /\ probed' = Append(probed, RowUrl(removed_df.rows[row_i]))
  /\ row_i' = row_i + 1
  /\ UNCHANGED <<ver_pc, award_id, removed_df>>
  /\ UNCHANGED diffVars
  /\ UNCHANGED mainVars
  /\ UNCHANGED normVars
  /\ UNCHANGED storeVars

\* The loop is exhausted: return the three frames
VerifyReturn ==
  /\ ver_pc = "loop"
  /\ row_i > Len(removed_df.rows)
  /\ ver_pc' = "returned"
  /\ UNCHANGED <<award_id, removed_df, row_i, confirmed, still_present,
                 errors, probed, last_resp>>
  /\ UNCHANGED diffVars
  /\ UNCHANGED mainVars
  /\ UNCHANGED normVars
  /\ UNCHANGED storeVars

NextVerify ==
  \/ VerifyEmpty
  \/ VerifyEnter
  \/ VerifyRowNoProbe
  \/ VerifyRowProbe
  \/ VerifyReturn

SpecVerify == InitVerify /\ [][NextVerify]_vars

-----------------------------------------------------------------------------
(* Properties of verify_removed_rows, checked under SpecVerify *)

\* Equality of a piece of page text and a marker phrase up to letter case
SameIgnoringCase(chunk, marker) ==
  \/ chunk = marker
  \/ <<chunk, marker>> \in {<<"Page Not Found", "page not found">>}

\* The body of response r holds a missing-marker phrase of the award
BodyHasMarker(r, aid) ==
  \E i \in DOMAIN r.text : \E m \in AwardMarkers(aid) :
     SameIgnoringCase(r.text[i], m)

\* The step in which the loop handles the record removed_df.rows[row_i]
HandlesRow == ver_pc = "loop" /\ row_i <= Len(removed_df.rows) /\ row_i' = row_i + 1

\* The step in which the loop probes removed_df.rows[row_i]; last_resp' is what the
\* probe produced
ProbesRow == HandlesRow /\ last_resp' # NoResp

\* out is the record row with the annotation columns added to it
IsAnnotated(out, row, status) ==
  /\ \A c \in DOMAIN row : c \in DOMAIN out /\ out[c] = row[c]
  /\ "double_check_status" \in DOMAIN out
  /\ out["double_check_status"] = status

UrlsOf(list) == {RowUrl(list[i]) : i \in DOMAIN list}

\* C3: a record whose probe returns HTTP 200 with no missing-marker phrase in
\* the body is appended to still_present with status still_present, is put in
\* neither confirmed nor errors, and no later step moves it there.
C3_Status200StillPresent ==
  [][ /\ (ProbesRow /\ last_resp'.kind = "response"
            /\ last_resp'.status_code = 200
            /\ ~BodyHasMarker(last_resp', award_id))
         => /\ Len(still_present') = Len(still_present) + 1
            /\ IsAnnotated(still_present'[Len(still_present')],
                           removed_df.rows[row_i], "still_present")
            /\ confirmed' = confirmed
            /\ errors' = errors
      /\ \A k \in DOMAIN still_present :
            /\ k \in DOMAIN still_present'
            /\ still_present'[k] = still_present[k]
            /\ RowUrl(still_present[k]) \notin UrlsOf(confirmed') \cup UrlsOf(errors')
    ]_vars

\* C3 witness: the second record of a batch was just answered 200 without a
\* marker and is in still_present, the first one is in confirmed.
C3_Witness ==
  /\ ver_pc = "returned"
  /\ Len(removed_df.rows) = 2
  /\ last_resp.kind = "response"
  /\ last_resp.status_code = 200
  /\ ~BodyHasMarker(last_resp, award_id)
  /\ Len(last_resp.text) > 0
  /\ Len(still_present) = 1
  /\ RowUrl(still_present[1]) = RowUrl(removed_df.rows[2])
  /\ Len(confirmed) = 1

\* C4: a record whose probe fails at transport level, or is answered with a
\* status other than 404 and 200 and no marker, gets status check_error and a
\* diagnostic detail, is appended to confirmed and to errors, not to
\* still_present, and the loop goes on to the next record; the call returns
\* only with every record classified.
C4_ProbeFailureIsCheckError ==
  [][ /\ (ProbesRow /\ (\/ last_resp'.kind = "exception"
                         \/ /\ last_resp'.kind = "response"
                            /\ last_resp'.status_code \notin {404, 200}
                            /\ ~BodyHasMarker(last_resp', award_id)))
         => /\ Len(confirmed') = Len(confirmed) + 1
            /\ IsAnnotated(confirmed'[Len(confirmed')],
                           removed_df.rows[row_i], "check_error")
            /\ errors' = Append(errors, confirmed'[Len(confirmed')])
            /\ confirmed'[Len(confirmed')]["double_check_detail"] =
                 (IF last_resp'.kind = "exception"
                    THEN "request_error=" \o last_resp'.error
                    ELSE "status=" \o ToString(last_resp'.status_code))
            /\ still_present' = still_present
            /\ ver_pc' = "loop"
      /\ ver_pc' = "returned"
         => Len(confirmed') + Len(still_present') = Len(removed_df.rows)
    ]_vars

\* C4 witness: the first record of a batch of two timed out, the second one was
\* still handled, and the call returned.
C4_Witness ==
  /\ ver_pc = "returned"
  /\ Len(removed_df.rows) = 2
  /\ Len(errors) = 1
  /\ errors[1]["double_check_detail"] = "request_error=timeout"
  /\ RowUrl(errors[1]) = RowUrl(removed_df.rows[1])
  /\ Len(confirmed) + Len(still_present) = 2
  /\ last_resp.kind = "response"

\* C5: a record whose probe is answered 404, or with a body that holds one of
\* the award's marker phrases in any letter case (whatever the status code), is
\* appended to confirmed with status confirmed_missing, and to neither
\* still_present nor errors.
C5_MissingIsConfirmed ==
  [][ (ProbesRow /\ last_resp'.kind = "response"
         /\ (last_resp'.status_code = 404 \/ BodyHasMarker(last_resp', award_id)))
      => /\ Len(confirmed') = Len(confirmed) + 1
         /\ IsAnnotated(confirmed'[Len(confirmed')],
                        removed_df.rows[row_i], "confirmed_missing")
         /\ still_present' = still_present
         /\ errors' = errors
    ]_vars

\* C5 witness: a 200 response whose body holds a marker in another letter case
\* than the configured phrase, the record being in confirmed.
C5_Witness ==
  /\ ver_pc \in {"loop", "returned"}
  /\ last_resp.kind = "response"
  /\ last_resp.status_code = 200
  /\ \E i \in DOMAIN last_resp.text :
        /\ last_resp.text[i] \notin AwardMarkers(award_id)
        /\ \E m \in AwardMarkers(award_id) : SameIgnoringCase(last_resp.text[i], m)
  /\ Len(confirmed) > 0
  /\ confirmed[Len(confirmed)]["double_check_status"] = "confirmed_missing"
  /\ RowUrl(confirmed[Len(confirmed)]) = RowUrl(removed_df.rows[row_i - 1])

\* What C6 says of the record removed_df.rows[row_i] when it cannot be probed, with
\* no_id the status given to a record without identifier
CannotProbeIsKept(no_id) ==
  /\ (HandlesRow /\ RowUrl(removed_df.rows[row_i]) = "")
     => /\ Len(confirmed') = Len(confirmed) + 1
        /\ IsAnnotated(confirmed'[Len(confirmed')], removed_df.rows[row_i], no_id)
        /\ still_present' = still_present
        /\ errors' = errors
  /\ (HandlesRow /\ RowUrl(removed_df.rows[row_i]) # ""
        /\ award_id \notin RegisteredAwards)
     => /\ Len(confirmed') = Len(confirmed) + 1
        /\ IsAnnotated(confirmed'[Len(confirmed')], removed_df.rows[row_i],
                       "not_supported")
        /\ still_present' = still_present
        /\ errors' = errors

-----------------------------------------------------------------------------
(* SpecDiff: compute_diff applied once to a pair of normalized tables *)

InitDiff ==
  /\ diff_pc = "call"
  /\ prev \in NormalizedTables
  /\ curr \in NormalizedTables
  /\ ignore_fields \in IgnoreChoices
  /\ diff = NoDiff
  /\ VerIdle
  /\ MainIdle
  /\ NormIdle
  /\ StoreIdle

ComputeDiffCall ==
  /\ diff_pc = "call"
  /\ diff' = compute_diff(prev, curr, <<>>, ignore_fields)
  /\ prev' = PrevAfterCall(prev, curr, PRIMARY_KEY_DEFAULT)
  /\ curr' = CurrAfterCall(prev, curr, PRIMARY_KEY_DEFAULT)
  /\ diff_pc' = "returned"
  /\ UNCHANGED ignore_fields
  /\ UNCHANGED verVars
  /\ UNCHANGED mainVars
  /\ UNCHANGED normVars
  /\ UNCHANGED storeVars

NextDiff == ComputeDiffCall

SpecDiff == InitDiff /\ [][NextDiff]_vars

-----------------------------------------------------------------------------
(* Properties of compute_diff, checked under SpecDiff *)

\* The value of column c in the row of df with key k, "" when df has no such
\* column
CellOrEmpty(df, k, c) ==
  IF c \in df.cols THEN RowByKey(df, PRIMARY_KEY_DEFAULT, k)[c] ELSE ""

\* C1: removed is exactly the rows of prev whose key is not in curr, added is
\* exactly the rows of curr whose key is not in prev, modified holds only keys
\* of both, and the three partitions are pairwise disjoint by key (empty prev,
\* empty curr and both empty included).
C1_DiffPartitions ==
  diff_pc = "returned" =>
    LET pk == PRIMARY_KEY_DEFAULT
        pkeys == KeySet(prev, pk)
        ckeys == KeySet(curr, pk)
        akeys == KeySet(diff.added, pk)
        rkeys == KeySet(diff.removed, pk)
        mkeys == KeySet(diff.modified, pk)
    IN  /\ Range(diff.removed.rows) =
             {r \in Range(prev.rows) : KeyOf(r, pk) \notin ckeys}
        /\ Len(diff.removed.rows) = Cardinality(rkeys)
        /\ Range(diff.added.rows) =
             {r \in Range(curr.rows) : KeyOf(r, pk) \notin pkeys}
        /\ Len(diff.added.rows) = Cardinality(akeys)
        /\ mkeys \subseteq pkeys \cap ckeys
        /\ akeys \cap rkeys = {}
        /\ akeys \cap mkeys = {}
        /\ rkeys \cap mkeys = {}

\* C1 witness: a call that returned all three partitions non-empty.
C1_Witness ==
  /\ diff_pc = "returned"
  /\ Len(diff.added.rows) > 0
  /\ Len(diff.removed.rows) > 0
  /\ Len(diff.modified.rows) > 0

\* C2: a key of both tables is in modified exactly when some column of
\* (columns of prev \cup columns of curr) minus ignore_fields holds different
\* values in its two rows, a column a table lacks counting as "" there.
C2_ModifiedIffColumnDiffers ==
  diff_pc = "returned" =>
    LET pk == PRIMARY_KEY_DEFAULT
    IN  \A k \in KeySet(prev, pk) \cap KeySet(curr, pk) :
          (k \in KeySet(diff.modified, pk)) <=>
            (\E c \in (prev.cols \cup curr.cols) \ ignore_fields :
               CellOrEmpty(prev, k, c) # CellOrEmpty(curr, k, c))

\* C2 witness: one shared key is modified by a column only curr has, another
\* shared key is left unchanged because that column is empty in its row.
C2_Witness ==
  /\ diff_pc = "returned"
  /\ \E c \in curr.cols \ (prev.cols \cup ignore_fields) :
       \E k1, k2 \in KeySet(prev, PRIMARY_KEY_DEFAULT)
                     \cap KeySet(curr, PRIMARY_KEY_DEFAULT) :
         /\ CellOrEmpty(curr, k1, c) # ""
         /\ k1 \in KeySet(diff.modified, PRIMARY_KEY_DEFAULT)
         /\ CellOrEmpty(curr, k2, c) = ""
         /\ k2 \notin KeySet(diff.modified, PRIMARY_KEY_DEFAULT)

-----------------------------------------------------------------------------
(* Spec: run_all.py main under the __main__ guard, one action per step *)

\* settings["general"]["awards"]: the configured award ids, "9999" being one
\* without an entry in AWARD_MODULES
ConfigurableAwards == {"3008", "1909", "9999"}

AwardLists ==
  {l \in UNION {[1..n -> ConfigurableAwards] : n \in 0..MaxSources} :
     \A i, j \in DOMAIN l : i # j => l[i] # l[j]}

\* run_scraper: result.returncode, or 1 when subprocess.run raises
ReturnCodes == {0, 1}

\* What the profile pages answer during a run
PageAnswers ==
  {[kind |-> "response", status_code |-> 200, text |-> <<"member profile">>,
    error |-> ""],
   [kind |-> "response", status_code |-> 404, text |-> <<>>, error |-> ""],
   [kind |-> "response", status_code |-> 500, text |-> <<>>, error |-> ""],
   [kind |-> "exception", status_code |-> 0, text |-> <<>>,
    error |-> "timeout"]}

\* datetime.now().strftime("%Y%m%d_%H%M%S"): the times a run may write its
\* diff files at
RunClocks == {"20250119_120000", "20250119_120500"}

StepNames == {"collected", "loaded", "diffed", "verified", "written"}

\* The steps of the loop body an exception can leave through: they are
\* outside every try block of main
UnguardedSteps == {"diff", "verify", "write"}

Aid == award_ids[aid_i]

Did(step) == [steps EXCEPT ![aid_i] = @ \cup {step}]

\* removal_notes joined, lines 344-348
RemovalNotes(outcome) ==
  (IF ~IsEmpty(outcome.still_present)
     THEN " (" \o ToString(Len(outcome.still_present.rows)) \o " still present)"
     ELSE "")
  \o (IF ~IsEmpty(outcome.errors)
        THEN " (" \o ToString(Len(outcome.errors.rows))
               \o " verification errors)"
        ELSE "")

Init ==
  /\ VerIdle
  /\ NormIdle
  /\ StoreIdle
  /\ diff_pc = "idle"
  /\ prev = EmptyDF
  /\ curr = EmptyDF
  /\ ignore_fields = DEFAULT_IGNORE_FIELDS
  /\ diff = NoDiff
  /\ pc = "loop"
  /\ award_ids \in AwardLists
  /\ aid_i = 1
  /\ lines = <<HeaderLine>>
  /\ any_failures = FALSE
  /\ all_diff_files = <<>>
  /\ last_rc = 0
  /\ last_dir = NoDir
  /\ prev_path = NoPath
  /\ curr_path = NoPath
  /\ verified = NoOutcome
  /\ steps = [i \in DOMAIN award_ids |-> {}]
  /\ raised = {}
  /\ emitted = 0
  /\ exit_code = "none"

\* lines 270-275
NoModule ==
  /\ pc = "loop"
  /\ aid_i <= Len(award_ids)
  /\ Aid \notin AWARD_MODULES
  /\ lines' = Append(lines, Line(Aid, "no_module", ""))
  /\ any_failures' = TRUE
  /\ aid_i' = aid_i + 1
  /\ UNCHANGED <<pc, award_ids, all_diff_files, last_rc, last_dir, prev_path,
                 curr_path, verified, steps, raised, emitted, exit_code>>
  /\ UNCHANGED diffVars
  /\ UNCHANGED verVars
  /\ UNCHANGED normVars
  /\ UNCHANGED storeVars

\* lines 277-280: the scraper runs to its end and leaves the award's directory
RunScraper ==
  /\ pc = "loop"
  /\ aid_i <= Len(award_ids)
  /\ Aid \in AWARD_MODULES
  /\ \E rc \in ReturnCodes, dir \in DirStates :
       /\ last_rc' = rc
       /\ last_dir' = dir
  /\ pc' = "collected"
  /\ steps' = Did("collected")
  /\ UNCHANGED <<award_ids, aid_i, lines, any_failures, all_diff_files,
                 prev_path, curr_path, verified, raised, emitted, exit_code>>
  /\ UNCHANGED diffVars
  /\ UNCHANGED verVars
  /\ UNCHANGED normVars
  /\ UNCHANGED storeVars

\* run_scraper, lines 102-108: subprocess.run is called without a timeout, so
\* main waits for as long as the scraper does not exit
ScraperHangs ==
  /\ pc = "loop"
  /\ aid_i <= Len(award_ids)
  /\ Aid \in AWARD_MODULES
  /\ pc' = "hung"
  /\ UNCHANGED <<award_ids, aid_i, lines, any_failures, all_diff_files,
                 last_rc, last_dir, prev_path, curr_path, verified, steps,
                 raised, emitted, exit_code>>
  /\ UNCHANGED diffVars
  /\ UNCHANGED verVars
  /\ UNCHANGED normVars
  /\ UNCHANGED storeVars

\* lines 282-332
ValidateAndLoad ==
  /\ pc = "collected"
  /\ \E r \in {AfterScraper(Aid, last_rc, last_dir, ignore_fields)} :
       IF r.go_on
         THEN /\ prev' = r.load.prev
              /\ curr' = r.load.curr
              /\ prev_path' = r.load.prev_path
              /\ curr_path' = r.load.curr_path
              /\ pc' = "diff"
              /\ steps' = Did("loaded")
              /\ UNCHANGED <<lines, any_failures, aid_i>>
         ELSE /\ lines' = Append(lines, Line(Aid, r.status, r.detail))
              /\ any_failures' = (any_failures \/ r.failed)
              /\ aid_i' = aid_i + 1
              /\ pc' = "loop"
              /\ UNCHANGED <<prev, curr, prev_path, curr_path, steps>>
  /\ last_rc' = 0
  /\ last_dir' = NoDir
  /\ UNCHANGED <<award_ids, all_diff_files, verified, raised, emitted,
                 exit_code, diff_pc, ignore_fields, diff>>
  /\ UNCHANGED verVars
  /\ UNCHANGED normVars
  /\ UNCHANGED storeVars

\* A loop body that goes from compute_diff straight to the writing of the
\* files
DiffStep_SkipsVerify ==
  /\ pc = "diff"
  /\ diff' = compute_diff(prev, curr, <<>>, ignore_fields)
  /\ prev' = PrevAfterCall(prev, curr, PRIMARY_KEY_DEFAULT)
  /\ curr' = CurrAfterCall(prev, curr, PRIMARY_KEY_DEFAULT)
  /\ pc' = "write"
  /\ steps' = Did("diffed")
  /\ UNCHANGED <<award_ids, aid_i, lines, any_failures, all_diff_files,
                 last_rc, last_dir, prev_path, curr_path, verified, raised,
                 emitted, exit_code, diff_pc, ignore_fields>>
  /\ UNCHANGED verVars
  /\ UNCHANGED normVars
  /\ UNCHANGED storeVars

\* line 334
DiffStep ==
  /\ pc = "diff"
  /\ diff' = compute_diff(prev, curr, <<>>, ignore_fields)
  /\ prev' = PrevAfterCall(prev, curr, PRIMARY_KEY_DEFAULT)
  /\ curr' = CurrAfterCall(prev, curr, PRIMARY_KEY_DEFAULT)
  /\ pc' = "verify"
  /\ steps' = Did("diffed")
  /\ UNCHANGED <<award_ids, aid_i, lines, any_failures, all_diff_files,
                 last_rc, last_dir, prev_path, curr_path, verified, raised,
                 emitted, exit_code, diff_pc, ignore_fields>>
  /\ UNCHANGED verVars
  /\ UNCHANGED normVars
  /\ UNCHANGED storeVars

\* lines 337-341
VerifyStep ==
  /\ pc = "verify"
  /\ \E resps \in [DOMAIN diff.removed.rows -> PageAnswers] :
       /\ verified' = verify_removed_rows(Aid, diff.removed, resps)
       /\ diff' = AfterVerification(diff, verified')
  /\ pc' = "write"
  /\ steps' = Did("verified")
  /\ UNCHANGED <<award_ids, aid_i, lines, any_failures, all_diff_files,
                 last_rc, last_dir, prev_path, curr_path, raised, emitted,
                 exit_code, diff_pc, prev, curr, ignore_fields>>
  /\ UNCHANGED verVars
  /\ UNCHANGED normVars
  /\ UNCHANGED storeVars

\* lines 344-371: the diff files are written under snapshots/diffs
WriteStep ==
  /\ pc = "write"
  /\ \E now \in RunClocks :
       LET base_name == BaseName(curr_path, now)
           diff_prefix == "diffs/" \o Aid \o "__" \o base_name
       IN  all_diff_files' = all_diff_files \o write_diff_csvs(diff, diff_prefix)
  /\ pc' = "line"
  /\ steps' = Did("written")
  /\ UNCHANGED <<award_ids, aid_i, lines, any_failures, last_rc, last_dir,
                 prev_path, curr_path, verified, raised, emitted, exit_code>>
  /\ UNCHANGED diffVars
  /\ UNCHANGED verVars
  /\ UNCHANGED normVars
  /\ UNCHANGED storeVars

\* lines 373-382: the line of the source; the frames of the iteration are
\* dropped with it
ReportLine ==
  /\ pc = "line"
  /\ lines' = Append(lines,
                     Line(Aid, "diff",
                          diff_summary_str(diff) \o RemovalNotes(verified)))
  /\ aid_i' = aid_i + 1
  /\ pc' = "loop"
  /\ prev' = EmptyDF
  /\ curr' = EmptyDF
  /\ diff' = NoDiff
  /\ verified' = NoOutcome
  /\ prev_path' = NoPath
  /\ curr_path' = NoPath
  /\ UNCHANGED <<award_ids, any_failures, all_diff_files, last_rc, last_dir,
                 steps, raised, emitted, exit_code, diff_pc, ignore_fields>>
  /\ UNCHANGED verVars
  /\ UNCHANGED normVars
  /\ UNCHANGED storeVars

\* An exception out of compute_diff, verify_removed_rows, diff_dir.mkdir or
\* write_diff_csvs: no try block of main encloses lines 334-382, it leaves main
StepRaises ==
  /\ pc \in UnguardedSteps
  /\ raised' = raised \cup {[at |-> aid_i, step |-> pc]}
  /\ pc' = "fatal"
  /\ UNCHANGED <<award_ids, aid_i, lines, any_failures, all_diff_files,
                 last_rc, last_dir, prev_path, curr_path, verified, steps,
                 emitted, exit_code>>
  /\ UNCHANGED diffVars
  /\ UNCHANGED verVars
  /\ UNCHANGED normVars
  /\ UNCHANGED storeVars

\* lines 411-414: "FATAL ERROR", sys.exit(1)
GuardExit ==
  /\ pc = "fatal"
  /\ exit_code' = "1"
  /\ pc' = "done"
  /\ UNCHANGED <<award_ids, aid_i, lines, any_failures, all_diff_files,
                 last_rc, last_dir, prev_path, curr_path, verified, steps,
                 raised, emitted>>
  /\ UNCHANGED diffVars
  /\ UNCHANGED verVars
  /\ UNCHANGED normVars
  /\ UNCHANGED storeVars

\* lines 384-396: send_notification keeps its exceptions to itself
Report ==
  /\ pc = "loop"
  /\ aid_i > Len(award_ids)
  /\ emitted' = emitted + 1
  /\ pc' = "reported"
  /\ UNCHANGED <<award_ids, aid_i, lines, any_failures, all_diff_files,
                 last_rc, last_dir, prev_path, curr_path, verified, steps,
                 raised, exit_code>>
  /\ UNCHANGED diffVars
  /\ UNCHANGED verVars
  /\ UNCHANGED normVars
  /\ UNCHANGED storeVars

\* lines 398-400
Exit ==
  /\ pc = "reported"
  /\ exit_code' = IF any_failures THEN "1" ELSE "0"
  /\ pc' = "done"
  /\ UNCHANGED <<award_ids, aid_i, lines, any_failures, all_diff_files,
                 last_rc, last_dir, prev_path, curr_path, verified, steps,
                 raised, emitted>>
  /\ UNCHANGED diffVars
  /\ UNCHANGED verVars
  /\ UNCHANGED normVars
  /\ UNCHANGED storeVars

Next ==
  \/ NoModule
  \/ RunScraper
  \/ ScraperHangs
  \/ ValidateAndLoad
  \/ DiffStep
  \/ VerifyStep
  \/ WriteStep
  \/ ReportLine
  \/ StepRaises
  \/ GuardExit
  \/ Report
  \/ Exit

Spec == Init /\ [][Next]_vars

-----------------------------------------------------------------------------
(* Properties of the coordinator run, checked under Spec *)

\* The report line of the i-th configured source: lines[1] is the header
HasLine(i) == i + 1 <= Len(lines)

LineOf(i) == lines[i + 1]

\* Every configured source has its line, in the order of the list
OneLinePerSource ==
  /\ Len(lines) = Len(award_ids) + 1
  /\ \A i \in DOMAIN award_ids : LineOf(i).aid = award_ids[i]

FailureStatuses ==
  {"no_module", "scraper_failed", "output_invalid", "load_failed"}

CollectionFailureStatuses == {"scraper_failed", "output_invalid"}

ReportedNormally == pc = "done" /\ emitted = 1

\* The collection step of a source failed: the scraper returned non-zero, or
\* there is no new snapshot, or the newest one is zero bytes, unreadable or
\* without data rows
CollectionFailed(rc, dir) ==
  \/ rc # 0
  \/ ~dir.exists
  \/ dir.files = {}
  \/ \E f \in dir.files :
       /\ \A g \in dir.files : f.age <= g.age
       /\ \/ f.age > MaxSnapshotAge
          \/ f.content.kind \in {"zero_bytes", "unreadable"}
          \/ Len(f.content.table.rows) = 0

\* C7: an exception raised at a step of one source's processing is caught at
\* that source's boundary: the run still ends with the report emitted once and
\* a line for every configured source.
C7_CrashIsIsolated ==
  (pc = "done" /\ raised # {}) => (emitted = 1 /\ OneLinePerSource)

\* The exception of the load step is the one main catches: the source gets its
\* line, the run is marked failed and the loop goes on
C7_LoadFailureIsCaught ==
  [][(pc = "collected"
      /\ AfterScraper(Aid, last_rc, last_dir, ignore_fields).status
           = "load_failed")
     => (pc' = "loop" /\ aid_i' = aid_i + 1 /\ any_failures'
         /\ raised' = raised
         /\ lines' = Append(lines, Line(Aid, "load_failed", "valid csv")))]_vars

\* C8: a source whose collection step failed gets exactly one report line
\* saying so, marks the run failed, is never loaded, diffed, verified or
\* written, and hands the loop over to the next source of the list; the report
\* is not emitted before every source has been taken up.
C8_CollectionFailureIsolated ==
  [][/\ (pc = "collected" /\ CollectionFailed(last_rc, last_dir))
          => /\ Len(lines') = Len(lines) + 1
             /\ SubSeq(lines', 1, Len(lines)) = lines
             /\ lines'[Len(lines')].aid = Aid
             /\ lines'[Len(lines')].status \in CollectionFailureStatuses
             /\ any_failures'
             /\ pc' = "loop"
             /\ aid_i' = aid_i + 1
             /\ steps' = steps
             /\ all_diff_files' = all_diff_files
             /\ diff' = diff
     /\ \A i \in DOMAIN award_ids :
          (HasLine(i) /\ LineOf(i).status \in CollectionFailureStatuses)
            => steps[i] = {"collected"}
     /\ (emitted' # emitted) => aid_i > Len(award_ids)]_vars

\* A source whose newest capture has no data rows was failed, and the source
\* after it went through to its diff
C8_Witness ==
  /\ Len(award_ids) = 2
  /\ Len(lines) = 3
  /\ LineOf(1).status = "output_invalid"
  /\ LineOf(1).detail = "csv has no data rows"
  /\ steps[1] = {"collected"}
  /\ LineOf(2).status = "diff"
  /\ "written" \in steps[2]

\* C9: once every source has finished and the report is out, the exit status
\* is failure exactly when some source ended without a scraper module, with a
\* failed collection, an invalid output or a load failure.
C9_FailureIffSourceFailed ==
  ReportedNormally =>
    /\ exit_code \in {"0", "1"}
    /\ exit_code = "1" <=>
         \E i \in DOMAIN award_ids : LineOf(i).status \in FailureStatuses

\* A run that ended in failure through a load failure next to a source that
\* ended with its diff
C9_Witness ==
  /\ ReportedNormally
  /\ exit_code = "1"
  /\ \E i, j \in DOMAIN award_ids :
       /\ LineOf(i).status = "load_failed"
       /\ LineOf(j).status = "diff"

\* C10: the report is emitted exactly once, after the last source, with one
\* line for each configured source in the order of the list.
C10_ReportOncePerSource ==
  /\ emitted <= 1
  /\ emitted = 1 => (aid_i > Len(award_ids) /\ OneLinePerSource)
  /\ pc = "done" => emitted = 1

\* As long as no step raised, the report is emitted once, after the last
\* source, with one line for each configured source
C10_HoldsUnlessRaised ==
  raised = {} =>
    /\ emitted <= 1
    /\ emitted = 1 => (aid_i > Len(award_ids) /\ OneLinePerSource)
    /\ pc = "done" => emitted = 1

\* C11: a source left with fewer than two snapshots by a successful collection
\* gets a first-snapshot line straight after the collection: nothing is
\* loaded into a diff, nothing is verified, nothing is written, and the run is
\* not marked failed by it.
C11_FirstSnapshotNoDiff ==
  [][/\ (/\ pc = "collected"
         /\ ~CollectionFailed(last_rc, last_dir)
         /\ Cardinality(last_dir.files) < 2)
          => /\ lines' = Append(lines, Line(Aid, "first_snapshot", "valid csv"))
             /\ any_failures' = any_failures
             /\ pc' = "loop"
             /\ aid_i' = aid_i + 1
             /\ steps' = steps
             /\ diff' = diff
             /\ verified' = verified
             /\ all_diff_files' = all_diff_files
     /\ \A i \in DOMAIN award_ids :
          (HasLine(i) /\ LineOf(i).status = "first_snapshot")
            => steps[i] = {"collected"}]_vars

\* A run over one source that ended with a first-snapshot line, nothing
\* written, and success
C11_Witness ==
  /\ ReportedNormally
  /\ Len(award_ids) = 1
  /\ LineOf(1).status = "first_snapshot"
  /\ steps[1] = {"collected"}
  /\ all_diff_files = <<>>
  /\ exit_code = "0"

\* The rows of a verifier output frame without the columns the verifier added
Unannotated(df, cols) ==
  [i \in DOMAIN df.rows |-> [c \in cols |-> df.rows[i][c]]]

StatusesIn(df) ==
  {df.rows[i]["double_check_status"] : i \in DOMAIN df.rows}

\* C12: removal verification changes the removed partition only. The added
\* and modified partitions go to the writer as compute_diff returned them; the
\* removed partition the writer and the summary get is the verifier's
\* confirmed frame: it holds no still_present record, and every record the
\* diff removed is either in it or in the still_present frame.
C12_VerificationTouchesRemovedOnly ==
  [][/\ (pc = "verify" /\ pc' = "write")
          => LET cols == diff.removed.cols
                 kept == Unannotated(diff'.removed, cols)
                 held == Unannotated(verified'.still_present, cols)
             IN  /\ diff'.added = diff.added
                 /\ diff'.modified = diff.modified
                 /\ diff'.removed = verified'.confirmed
                 /\ "still_present" \notin StatusesIn(diff'.removed)
                 /\ StatusesIn(verified'.still_present) \subseteq {"still_present"}
                 /\ Range(kept) \cup Range(held) = Range(diff.removed.rows)
                 /\ Range(kept) \cap Range(held) = {}
                 /\ Len(kept) + Len(held) = Len(diff.removed.rows)
     /\ pc \in {"write", "line"} => diff.removed = verified.confirmed
     /\ (pc = "write" /\ pc' = "line")
          => \E now \in RunClocks :
                all_diff_files' =
                  all_diff_files
                    \o write_diff_csvs(diff, "diffs/" \o Aid \o "__"
                                               \o BaseName(curr_path, now))
     /\ (pc = "line" /\ pc' = "loop")
          => lines'[Len(lines')].detail =
               diff_summary_str(diff) \o RemovalNotes(verified)]_vars

\* The member the diff removed is still on the site: it is held back from the
\* removed partition while the added and the modified member go through
C12_Witness ==
  /\ pc = "write"
  /\ Len(verified.still_present.rows) = 1
  /\ IsEmpty(diff.removed)
  /\ Len(diff.added.rows) = 1
  /\ Len(diff.modified.rows) = 1

-----------------------------------------------------------------------------
(* SpecWrite: write_diff_csvs called again and again on one directory *)

\* The keys of the dict compute_diff returns, in the order write_diff_csvs
\* goes through them
PartitionOrder == <<"added", "removed", "modified">>

HasFile(dir, name) == \E f \in dir.files : FileName(f) = name

FileNamed(dir, name) == CHOOSE f \in dir.files : FileName(f) = name

\* The files write_diff_csvs would write if it wrote every partition
ArtifactFiles_AllPartitions(d, stamp, stem) ==
  [i \in DOMAIN PartitionOrder |->
     [stamp |-> stamp,
      tail |-> stem \o "__" \o PartitionOrder[i] \o ".csv",
      age |-> 0,
      content |-> Csv(d[PartitionOrder[i]].cols, d[PartitionOrder[i]].rows)]]

\* The files the to_csv calls of write_diff_csvs write for the prefix
\* stamp \o stem: one per partition that is not empty
ArtifactFiles(d, stamp, stem) ==
  LET parts == SelectSeq(PartitionOrder, LAMBDA n : ~IsEmpty(d[n]))
  IN  [i \in DOMAIN parts |->
         [stamp |-> stamp,
          tail |-> stem \o "__" \o parts[i] \o ".csv",
          age |-> 0,
          content |-> Csv(d[parts[i]].cols, d[parts[i]].rows)]]

\* DataFrame.to_csv(p): p is created, or replaced when it is there already
WriteFiles(dir, files) ==
  [dir EXCEPT !.files =
     {f \in @ : \A i \in DOMAIN files : FileName(f) # FileName(files[i])}
       \cup Range(files)]

\* The partitions the writer is called with
OneRowFrame ==
  [cols |-> {"profile_url", "name"}, rows |-> <<Member("u1", "x")>>]

TwoRowFrame ==
  [cols |-> {"profile_url", "name"},
   rows |-> <<Member("u1", "y"), Member("u2", "x")>>]

NoRowFrame == [cols |-> {"profile_url", "name"}, rows |-> <<>>]

WriterDiffs ==
  {[added |-> a, removed |-> r, modified |-> m] :
     a \in {EmptyDF, OneRowFrame, TwoRowFrame},
     r \in {EmptyDF, OneRowFrame},
     m \in {EmptyDF, NoRowFrame, TwoRowFrame}}

\* out_prefix.name of the calls
WriterPrefixes == {"20250112_090000", "20250119_090000"}

MaxCalls == 2

InitWrite ==
  /\ DiffIdle
  /\ VerIdle
  /\ MainIdle
  /\ NormIdle
  /\ store = [exists |-> TRUE, files |-> {}]
  /\ written = <<>>
  /\ last_call = NoCall
  /\ loaded = NoLoad
  /\ calls = 0

\* written = write_diff_csvs(d, out_prefix)
WriteCall ==
  /\ calls < MaxCalls
  /\ \E d \in WriterDiffs, out_prefix \in WriterPrefixes :
       /\ store' = WriteFiles(store, ArtifactFiles(d, out_prefix, ""))
       /\ written' = write_diff_csvs(d, out_prefix)
       /\ last_call' = [diff |-> d, prefix |-> out_prefix,
                        repeated |-> (calls > 0 /\ d = last_call.diff
                                        /\ out_prefix = last_call.prefix)]
  /\ calls' = calls + 1
  /\ UNCHANGED loaded
  /\ UNCHANGED diffVars
  /\ UNCHANGED verVars
  /\ UNCHANGED mainVars
  /\ UNCHANGED normVars

NextWrite == WriteCall

SpecWrite == InitWrite /\ [][NextWrite]_vars

-----------------------------------------------------------------------------
(* Properties of write_diff_csvs, checked under SpecWrite *)

\* The name of the artifact of a partition under a prefix
ArtifactName(prefix, part) == prefix \o "__" \o part \o ".csv"

\* C13: a call writes a file for exactly the partitions that are not empty,
\* with the partition as its content, and returns the names of these files in
\* the order added, removed, modified; it creates or touches no other file;
\* and a call with the arguments of the call before it leaves the directory
\* and the returned names as they were.
C13_WritesNonEmptyPartitions ==
  [][calls' = calls + 1 =>
       LET d == last_call'.diff
           pre == last_call'.prefix
           parts == SelectSeq(PartitionOrder, LAMBDA n : Len(d[n].rows) > 0)
       IN  /\ written' = [i \in DOMAIN parts |-> ArtifactName(pre, parts[i])]
           /\ \A i \in DOMAIN parts :
                /\ HasFile(store', written'[i])
                /\ FileNamed(store', written'[i]).content.table = d[parts[i]]
           /\ {f \in store'.files : FileName(f) \notin Range(written')}
                = {f \in store.files : FileName(f) \notin Range(written')}
           /\ \A f, g \in store'.files : FileName(f) = FileName(g) => f = g
           /\ (/\ calls > 0
               /\ d = last_call.diff
               /\ pre = last_call.prefix)
                => (store' = store /\ written' = written)]_vars

\* The writer was called twice with the same arguments, one partition empty
\* and two not, and the directory holds the two files
C13_Witness ==
  /\ calls = 2
  /\ last_call.repeated
  /\ IsEmpty(last_call.diff.removed)
  /\ Len(written) = 2
  /\ Cardinality(store.files) = 2

-----------------------------------------------------------------------------
(* Further properties of compute_diff, checked under SpecDiff *)

\* The tables that differ from c at most in the values of the ignored columns
IgnoredVariants(c, ignored) ==
  {[cols |-> c.cols,
    rows |-> [i \in DOMAIN c.rows |->
                [x \in c.cols |-> IF x \in ignored THEN f[i][x]
                                                   ELSE c.rows[i][x]]]] :
     f \in [DOMAIN c.rows -> [c.cols \cap ignored -> CellVals]]}

\* C14: for every current table that differs from curr only in the values of
\* ignored fields, compute_diff against the same previous table puts the same
\* keys into added, into removed and into modified.
C14_IgnoredFieldInvariance ==
  diff_pc = "returned" =>
    \A c2 \in IgnoredVariants(curr, ignore_fields) :
       LET pk == PRIMARY_KEY_DEFAULT
           d2 == compute_diff(prev, c2, <<>>, ignore_fields)
       IN  /\ KeySet(d2.modified, pk) = KeySet(diff.modified, pk)
           /\ KeySet(d2.added, pk) = KeySet(diff.added, pk)
           /\ KeySet(d2.removed, pk) = KeySet(diff.removed, pk)

\* A shared key whose ignored field changed and that is not in modified, next
\* to a shared key that is in modified
C14_Witness ==
  /\ diff_pc = "returned"
  /\ ignore_fields = {"location"}
  /\ "location" \in prev.cols \cap curr.cols
  /\ \E k \in KeySet(prev, PRIMARY_KEY_DEFAULT)
                \cap KeySet(curr, PRIMARY_KEY_DEFAULT) :
       /\ CellOrEmpty(prev, k, "location") # CellOrEmpty(curr, k, "location")
       /\ k \notin KeySet(diff.modified, PRIMARY_KEY_DEFAULT)
  /\ Len(diff.modified.rows) = 1

\* C15: compute_diff of a normalized table against itself returns three
\* empty partitions.
C15_SelfDiffIsEmpty ==
  (diff_pc = "returned" /\ prev = curr) =>
    /\ IsEmpty(diff.added)
    /\ IsEmpty(diff.removed)
    /\ IsEmpty(diff.modified)

\* A table of two rows was compared with itself
C15_Witness ==
  /\ diff_pc = "returned"
  /\ prev = curr
  /\ Len(prev.rows) = 2
  /\ "name" \in prev.cols
  /\ Len(diff.added.rows) + Len(diff.removed.rows) + Len(diff.modified.rows) = 0

-----------------------------------------------------------------------------
(* SpecNorm: normalize_df applied to a raw table, then to its own result *)

MaxRawRows == 2

\* What a cell of the key column of a raw capture may hold
RawKeyVals == {"", "x", " x"}

\* What any other cell of a raw capture may hold
RawCellVals == {"x", "x ", "x  y"}

RawRowsOver(cols) ==
  {[c \in cols |-> IF c = "profile_url" THEN k ELSE f[c]] :
     k \in RawKeyVals, f \in [cols \ {"profile_url"} -> RawCellVals]}

\* pd.read_csv(...).fillna(""): with or without the key column, with or
\* without rows
RawTables ==
  {EmptyDF} \cup
  UNION {{[cols |-> S, rows |-> rs] :
            rs \in UNION {[1..n -> RawRowsOver(S)] : n \in 0..MaxRawRows}} :
         S \in {{"profile_url", "name"}, {"profile_url"}, {"name"}}}

InitNorm ==
  /\ DiffIdle
  /\ VerIdle
  /\ MainIdle
  /\ StoreIdle
  /\ norm_pc = "call"
  /\ raw \in RawTables
  /\ norm_ignored \in IgnoreChoices
  /\ normalized = EmptyDF

\* normalized = normalize_df(raw, pk, ignore_fields); df = df.copy() keeps the
\* caller's frame as it is
NormalizeCall ==
  /\ norm_pc = "call"
  /\ normalized' = normalize_df(raw, PRIMARY_KEY_DEFAULT, norm_ignored)
  /\ norm_pc' = "returned"
  /\ UNCHANGED <<raw, norm_ignored>>
  /\ UNCHANGED diffVars
  /\ UNCHANGED verVars
  /\ UNCHANGED mainVars
  /\ UNCHANGED storeVars

\* normalize_df applied to what it returned
NormalizeAgain ==
  /\ norm_pc = "returned"
  /\ normalized' = normalize_df(normalized, PRIMARY_KEY_DEFAULT, norm_ignored)
  /\ norm_pc' = "returned_again"
  /\ UNCHANGED <<raw, norm_ignored>>
  /\ UNCHANGED diffVars
  /\ UNCHANGED verVars
  /\ UNCHANGED mainVars
  /\ UNCHANGED storeVars

NextNorm == NormalizeCall \/ NormalizeAgain

SpecNorm == InitNorm /\ [][NextNorm]_vars

-----------------------------------------------------------------------------
(* Properties of normalize_df, checked under SpecNorm *)

\* The key of a raw row as it compares after trimming and collapsing, "" when
\* the capture has no key column
CollapsedKey(df, i) ==
  IF "profile_url" \in df.cols
    THEN _collapse_ws(df.rows[i]["profile_url"]) ELSE ""

\* C16: what normalize_df returns has every primary-key field as a column,
\* holding the empty string where the raw table had no such column, and no two
\* of its rows share a primary-key value; every key of the raw table, trimmed
\* and collapsed, is the key of one of its rows.
C16_KeysPresentAndUnique ==
  norm_pc # "call" =>
    LET pk == PRIMARY_KEY_DEFAULT
    IN  /\ Range(pk) \subseteq normalized.cols
        /\ \A i, j \in DOMAIN normalized.rows :
             i # j => KeyOf(normalized.rows[i], pk) # KeyOf(normalized.rows[j], pk)
        /\ \A i \in DOMAIN normalized.rows :
             \A c \in normalized.cols :
                _collapse_ws(normalized.rows[i][c]) = normalized.rows[i][c]
        /\ (~IsEmpty(raw) /\ Range(pk) \cap raw.cols = {})
             => \A i \in DOMAIN normalized.rows :
                   \A c \in Range(pk) : normalized.rows[i][c] = ""
        /\ IsEmpty(raw) => Len(normalized.rows) = 0
        /\ ~IsEmpty(raw) =>
             {normalized.rows[i]["profile_url"] : i \in DOMAIN normalized.rows}
               = {CollapsedKey(raw, i) : i \in DOMAIN raw.rows}

\* Two raw rows whose keys differ only in whitespace came out as one row
C16_Witness ==
  /\ norm_pc = "returned"
  /\ Len(raw.rows) = 2
  /\ "profile_url" \in raw.cols
  /\ raw.rows[1]["profile_url"] = " x"
  /\ raw.rows[2]["profile_url"] = "x"
  /\ Len(normalized.rows) = 1

\* The frame with the rows of df in the opposite order
Reversed(df) ==
  [cols |-> df.cols,
   rows |-> [i \in DOMAIN df.rows |-> df.rows[Len(df.rows) + 1 - i]]]

\* C17: the row normalize_df keeps for a key does not depend on the order of
\* the rows of its input: the same rows in the opposite order give the same
\* rows.
C17_SurvivorIndependentOfOrder ==
  norm_pc = "returned" =>
    Range(normalize_df(Reversed(raw), PRIMARY_KEY_DEFAULT, norm_ignored).rows)
      = Range(normalized.rows)

\* C18: normalize_df applied to what normalize_df returned returns it
\* unchanged: same columns, same rows, same order.
C18_NormalizeIdempotent ==
  [][(norm_pc = "returned" /\ norm_pc' = "returned_again")
       => normalized' = normalized]_vars

\* The second pass is over a table the first pass changed: a key column
\* added, a cell collapsed, a duplicate dropped
C18_Witness ==
  /\ norm_pc = "returned_again"
  /\ raw.cols = {"profile_url", "name"}
  /\ Len(raw.rows) = 2
  /\ Len(normalized.rows) = 1
  /\ raw.rows[1]["name"] = "x  y"
  /\ normalized.rows[1]["name"] = "x y"
  /\ "location" \in normalized.cols

\* C19 as stated: every column of either snapshot is in the merged row twice,
\* once with the suffix _before and once with the suffix _after.
C19_AsStated ==
  (diff_pc = "returned" /\ Len(diff.modified.rows) > 0) =>
    \A c \in prev.cols \cup curr.cols :
       /\ (c \o "_before") \in diff.modified.cols
       /\ (c \o "_after") \in diff.modified.cols

\* C19: modified holds exactly one row per modified key. The row holds the
\* primary-key columns once, without suffix; every other column of both
\* snapshots twice, with the suffix _before and the previous value and with the
\* suffix _after and the current value, ignored fields included; and a column
\* of one snapshot only once, without suffix, with the value of that snapshot.
C19_MergedRowPerKey ==
  (diff_pc = "returned" /\ Len(diff.modified.rows) > 0) =>
    LET pk == PRIMARY_KEY_DEFAULT
        m == diff.modified
        shared == (prev.cols \cap curr.cols) \ Range(pk)
        only_prev == prev.cols \ curr.cols
        only_curr == curr.cols \ prev.cols
    IN  /\ Len(m.rows) = Cardinality(KeySet(m, pk))
        /\ m.cols = Range(pk) \cup only_prev \cup only_curr
                      \cup {c \o "_before" : c \in shared}
                      \cup {c \o "_after" : c \in shared}
        /\ \A i \in DOMAIN m.rows :
             LET k == KeyOf(m.rows[i], pk)
                 pr == RowByKey(prev, pk, k)
                 cr == RowByKey(curr, pk, k)
             IN  /\ \A c \in shared :
                      /\ m.rows[i][c \o "_before"] = pr[c]
                      /\ m.rows[i][c \o "_after"] = cr[c]
                 /\ \A c \in only_prev : m.rows[i][c] = pr[c]
                 /\ \A c \in only_curr : m.rows[i][c] = cr[c]

\* One modified key; the ignored field is in the row with both of its values,
\* and a column only curr has is in it without suffix
C19_Witness ==
  /\ diff_pc = "returned"
  /\ ignore_fields = {"location"}
  /\ Len(diff.modified.rows) = 1
  /\ "location_before" \in diff.modified.cols
  /\ diff.modified.rows[1]["location_before"] = ""
  /\ diff.modified.rows[1]["location_after"] = "x"
  /\ "name" \in diff.modified.cols
  /\ diff.modified.rows[1]["name"] = "x"

-----------------------------------------------------------------------------
(* SpecStore: the directory snapshots/<aid> of one award, over runs of its   *)
(* scraper, runs of the test runner and calls of load_latest_two             *)

MaxTestRuns == 1

\* The captures a scraper run writes
Captures == {CaptureA, CaptureB, CaptureC}

StampIndex(stamp) == CHOOSE i \in DOMAIN Stamps : Stamps[i] = stamp

\* Path.with_suffix(""): the tail of the name of a file without its ".csv"
StemTail(tail) ==
  CASE tail = ".csv" -> ""
    [] tail = "__added.csv" -> "__added"
    [] tail = "__modified.csv" -> "__modified"
    [] tail = "__removed.csv" -> "__removed"
    [] OTHER -> tail

InitStore ==
  /\ DiffIdle
  /\ VerIdle
  /\ MainIdle
  /\ NormIdle
  /\ store = [exists |-> TRUE, files |-> {}]
  /\ written = <<>>
  /\ last_call = NoCall
  /\ loaded = NoLoad
  /\ calls = 0

\* A run of the scraper: one new file, named by the time of the capture,
\* which is later than every capture there is
StoreCollect ==
  /\ \E i \in DOMAIN Stamps, c \in Captures :
       /\ \A f \in store.files : StampIndex(f.stamp) < i
       /\ store' = [store EXCEPT !.files =
                      @ \cup {[stamp |-> Stamps[i], tail |-> ".csv",
                               age |-> -60, content |-> c]}]
  /\ UNCHANGED <<written, last_call, loaded, calls>>
  /\ UNCHANGED diffVars
  /\ UNCHANGED verVars
  /\ UNCHANGED mainVars
  /\ UNCHANGED normVars

\* test_runner_like.process_award: the diff files go next to the snapshot
StoreTestRun ==
  /\ calls < MaxTestRuns
  /\ LET l == load_latest_two(store, <<>>, DEFAULT_IGNORE_FIELDS)
         d == compute_diff(l.prev, l.curr, <<>>, DEFAULT_IGNORE_FIELDS)
         stem == StemTail(l.curr_path.tail)
     IN  IF l.curr_path = NoPath \/ l.prev_path = NoPath
           THEN UNCHANGED <<store, written, last_call>>
           ELSE /\ store' = WriteFiles(store,
                                       ArtifactFiles(d, l.curr_path.stamp, stem))
                /\ written' = write_diff_csvs(d, l.curr_path.stamp \o stem)
                /\ last_call' = [diff |-> d,
                                 prefix |-> l.curr_path.stamp \o stem,
                                 repeated |-> FALSE]
  /\ calls' = calls + 1
  /\ UNCHANGED loaded
  /\ UNCHANGED diffVars
  /\ UNCHANGED verVars
  /\ UNCHANGED mainVars
  /\ UNCHANGED normVars

\* load_latest_two(award_id), as main calls it
StoreLoad ==
  /\ LET l == load_latest_two(store, <<>>, DEFAULT_IGNORE_FIELDS)
     IN  loaded' = [raises |-> l.raises, prev |-> l.prev, curr |-> l.curr,
                    prev_path |-> l.prev_path, curr_path |-> l.curr_path,
                    called |-> TRUE]
  /\ UNCHANGED <<store, written, last_call, calls>>
  /\ UNCHANGED diffVars
  /\ UNCHANGED verVars
  /\ UNCHANGED mainVars
  /\ UNCHANGED normVars

NextStore == StoreCollect \/ StoreTestRun \/ StoreLoad

SpecStore == InitStore /\ [][NextStore]_vars

-----------------------------------------------------------------------------
(* Properties of load_latest_two, checked under SpecStore *)

\* The snapshots of a directory: the files a scraper wrote
SnapshotsOf(dir) == {f \in dir.files : f.tail = ".csv"}

\* The snapshot with the greatest capture time among S
Newest(S) ==
  CHOOSE f \in S : \A g \in S : StampIndex(g.stamp) <= StampIndex(f.stamp)

\* C20: load_latest_two returns as curr the snapshot with the greatest capture
\* time and as prev the one with the second greatest, whatever else the
\* directory holds: never an older snapshot, never a file that is no snapshot.
C20_LoadsLatestTwoSnapshots ==
  [][loaded' # loaded =>
       LET snaps == SnapshotsOf(store)
       IN  /\ loaded'.curr_path =
                IF snaps = {} THEN NoPath ELSE PathOf(Newest(snaps))
           /\ loaded'.prev_path =
                IF Cardinality(snaps) < 2 THEN NoPath
                ELSE PathOf(Newest(snaps \ {Newest(snaps)}))
           /\ snaps # {} =>
                loaded'.curr =
                  normalize_df(Newest(snaps).content.table, PRIMARY_KEY_DEFAULT,
                               DEFAULT_IGNORE_FIELDS)]_vars

\* As long as the test runner has written no diff file into the directory,
\* load_latest_two returns the two newest snapshots
C20_HoldsWithoutDiffFiles ==
  [][(loaded' # loaded /\ SnapshotsOf(store) = store.files) =>
       LET snaps == SnapshotsOf(store)
       IN  /\ loaded'.curr_path =
                IF snaps = {} THEN NoPath ELSE PathOf(Newest(snaps))
           /\ loaded'.prev_path =
                IF Cardinality(snaps) < 2 THEN NoPath
                ELSE PathOf(Newest(snaps \ {Newest(snaps)}))]_vars

-----------------------------------------------------------------------------
(* Order of the steps of a source (specification Spec) *)

\* The steps a source has taken when it takes the given one
StepBefore(step) ==
  CASE step = "collected" -> {}
    [] step = "loaded" -> {"collected"}
    [] step = "diffed" -> {"collected", "loaded"}
    [] step = "verified" -> {"collected", "loaded", "diffed"}
    [] step = "written" -> {"collected", "loaded", "diffed", "verified"}

\* C21: a source takes its steps in the order collected, loaded, diffed,
\* verified, written and then gets its line: a step is taken only by the
\* source of the current iteration, only while it has no line yet, and only
\* when exactly the steps before it have been taken; diff files are written
\* only after the removed partition has been verified; the line of a diffed
\* source is appended only after its files are written; a source whose line
\* reports a failure has taken no step after the collection.
C21_StepsInOrder ==
  [][/\ \A i \in DOMAIN steps :
          /\ steps[i] \subseteq steps'[i]
          /\ steps'[i] # steps[i]
               => /\ i = aid_i
                  /\ ~HasLine(i)
                  /\ \E step \in StepNames :
                       /\ steps'[i] = steps[i] \cup {step}
                       /\ steps[i] = StepBefore(step)
     /\ all_diff_files' # all_diff_files
          => /\ "verified" \in steps[aid_i]
             /\ diff.removed = verified.confirmed
             /\ ~HasLine(aid_i)
     /\ Len(lines') > Len(lines)
          => /\ Len(lines') = Len(lines) + 1
             /\ lines'[Len(lines')].aid = Aid
             /\ Len(lines') = aid_i + 1
             /\ aid_i' = aid_i + 1
             /\ lines'[Len(lines')].status = "diff"
                  => steps[aid_i] = StepNames
             /\ lines'[Len(lines')].status # "diff"
                  => steps[aid_i] \subseteq {"collected"}]_vars

\* A source has gone through every step and has its line, and a source before
\* it failed after its collection
C21_Witness ==
  /\ Len(award_ids) = 2
  /\ HasLine(2)
  /\ LineOf(1).status \in CollectionFailureStatuses
  /\ steps[1] = {"collected"}
  /\ LineOf(2).status = "diff"
  /\ steps[2] = StepNames
  /\ Len(all_diff_files) > 0

-----------------------------------------------------------------------------
(* Probes issued by one call of verify_removed_rows (SpecVerify) *)

\* The rows among the first n of removed_df that have a url, under an award
\* with a registered verifier
RowsToProbe(n) ==
  {i \in 1..n : /\ i <= Len(removed_df.rows)
                /\ RowUrl(removed_df.rows[i]) # ""
                /\ award_id \in RegisteredAwards}

\* C22: within one call, the probes issued so far are exactly one per handled
\* row that has a url under an award with a registered verifier, in the order
\* of the rows; a row without url, or under an award without verifier, gets
\* none, no row is probed twice, and a call on an empty removed frame issues
\* none at all.
C22_OneProbePerRecord ==
  LET handled == IF ver_pc = "call" THEN 0
                 ELSE IF ver_pc = "loop" THEN row_i - 1
                 ELSE Len(removed_df.rows)
      due == RowsToProbe(handled)
  IN  /\ Len(probed) = Cardinality(due)
      /\ \A i \in due :
           probed[Cardinality({j \in due : j <= i})] = RowUrl(removed_df.rows[i])
      /\ IsEmpty(removed_df) => probed = <<>>
      /\ award_id \notin RegisteredAwards => probed = <<>>

\* A call has returned that probed one of its two rows and not the row
\* without url
C22_Witness ==
  /\ ver_pc = "returned"
  /\ Len(removed_df.rows) = 2
  /\ RowUrl(removed_df.rows[1]) = ""
  /\ probed = <<RowUrl(removed_df.rows[2])>>

-----------------------------------------------------------------------------
(* Independence of the records of one batch (SpecVerify) *)

\* One probe outcome of each kind the verifier tells apart: a live page, a
\* page with a missing-marker phrase, 404, another status, no answer
ProbeOutcomes ==
  {[kind |-> "response", status_code |-> 200, text |-> <<"member profile">>,
    error |-> ""],
   [kind |-> "response", status_code |-> 200, text |-> <<"Page Not Found">>,
    error |-> ""],
   [kind |-> "response", status_code |-> 404, text |-> <<>>, error |-> ""],
   [kind |-> "response", status_code |-> 500, text |-> <<>>, error |-> ""],
   [kind |-> "exception", status_code |-> 0, text |-> <<>>,
    error |-> "timeout"]}

\* rec is an output record made from the input record row
MadeFrom(rec, row) == \A c \in DOMAIN row : c \in DOMAIN rec /\ rec[c] = row[c]

\* What the three output lists hold for the input record row
RecordsOf(lists, row) ==
  [confirmed |-> SelectSeq(lists.confirmed, LAMBDA rec : MadeFrom(rec, row)),
   still_present |->
     SelectSeq(lists.still_present, LAMBDA rec : MadeFrom(rec, row)),
   errors |-> SelectSeq(lists.errors, LAMBDA rec : MadeFrom(rec, row))]

IsPrefix(s, t) == Len(s) <= Len(t) /\ \A i \in DOMAIN s : t[i] = s[i]

\* C23: for every batch and every assignment of probe outcomes to its
\* records, replacing the outcome of one record by any other outcome, a
\* failed request included, leaves the output records of every other record
\* of the batch, their status and the lists they are in, as they were; and a
\* loop iteration only appends records made from its own row to the lists.
C23_RecordsAreIndependent ==
  [][/\ ver_pc = "call"
          => LET rows == removed_df.rows
             IN  \A resps \in [DOMAIN rows -> ProbeOutcomes] :
                   \A k \in DOMAIN rows, r \in ProbeOutcomes :
                     \A j \in DOMAIN rows \ {k} :
                       RecordsOf(LoopFrom(NoLists, rows, 1, award_id, resps),
                                 rows[j])
                         = RecordsOf(LoopFrom(NoLists, rows, 1, award_id,
                                              [resps EXCEPT ![k] = r]),
                                     rows[j])
     /\ HandlesRow
          => /\ IsPrefix(confirmed, confirmed')
             /\ IsPrefix(still_present, still_present')
             /\ IsPrefix(errors, errors')
             /\ \A i \in (DOMAIN confirmed') \ (DOMAIN confirmed) :
                  MadeFrom(confirmed'[i], removed_df.rows[row_i])
             /\ \A i \in (DOMAIN still_present') \ (DOMAIN still_present) :
                  MadeFrom(still_present'[i], removed_df.rows[row_i])
             /\ \A i \in (DOMAIN errors') \ (DOMAIN errors) :
                  MadeFrom(errors'[i], removed_df.rows[row_i])]_vars

\* The probe of the second record failed and the first record, found live
\* before it, is still in still_present and nowhere else
C23_Witness ==
  /\ ver_pc = "returned"
  /\ Len(removed_df.rows) = 2
  /\ last_resp.kind = "exception"
  /\ Len(still_present) = 1
  /\ MadeFrom(still_present[1], removed_df.rows[1])
  /\ Len(errors) = 1
  /\ MadeFrom(errors[1], removed_df.rows[2])
  /\ Len(confirmed) = 1

-----------------------------------------------------------------------------
(* Termination of a run (specification SpecFair) *)

\* main takes each of its steps when the step stays possible: the interpreter
\* runs the loop on, and a scraper process that can exit does. Nothing
\* obliges a step to raise or a scraper to hang. Lines 282-332 cannot block
\* (ValidateAndLoad is enabled in every state with pc = "collected"), which
\* is stated on pc directly.
SpecFair ==
  /\ Spec
  /\ WF_vars(NoModule)
  /\ WF_vars(RunScraper)
  /\ []<>(pc # "collected")
  /\ WF_vars(DiffStep)
  /\ WF_vars(VerifyStep)
  /\ WF_vars(WriteStep)
  /\ WF_vars(ReportLine)
  /\ WF_vars(GuardExit)
  /\ WF_vars(Report)
  /\ WF_vars(Exit)

\* C24: a run over a finite list of sources terminates: a source whose
\* scraper does not return in time is failed and the run goes on to the
\* report and the exit.
C24_RunTerminates == <>(pc = "done")

\* A run that ends without waiting for a scraper that does not return
C24_TerminatesWhenScrapersReturn == []<>(pc \in {"done", "hung"})

-----------------------------------------------------------------------------
(* A run whose scraper wrote nothing (specification Spec) *)

\* The scraper left dir without a file written during its run
NothingNew(dir) == dir.exists /\ dir.files # {} /\ \A f \in dir.files : f.age > 0

\* C25: when the scraper exits with 0 and the newest snapshot of the
\* directory was written before the scraper started, the source gets a
\* failure line, the run is marked failed and the snapshots are not loaded
\* for a diff.
C25_NoNewSnapshotFails ==
  [][(pc = "collected" /\ last_rc = 0 /\ NothingNew(last_dir))
       => /\ pc' = "loop"
          /\ any_failures'
          /\ lines'[Len(lines')].status \in CollectionFailureStatuses]_vars

\* The same for a newest snapshot older than the hour validate_scraper_output
\* allows
C25_HoldsBeyondTheHour ==
  [][(/\ pc = "collected"
      /\ last_rc = 0
      /\ NothingNew(last_dir)
      /\ \A f \in last_dir.files : f.age > MaxSnapshotAge)
       => /\ pc' = "loop"
          /\ any_failures'
          /\ lines'[Len(lines')].status \in CollectionFailureStatuses]_vars

-----------------------------------------------------------------------------
(* Names of the diff files main writes (specification Spec) *)

\* The files main writes for the diff it holds when the clock reads now
FilesWrittenAt(now) ==
  write_diff_csvs(diff, "diffs/" \o Aid \o "__" \o BaseName(curr_path, now))

\* C26: the names of the files main writes for a source are fixed by the
\* source id, the current snapshot and the partitions: whatever the clock
\* reads when the write step runs, the same names are written.
C26_NamesIndependentOfClock ==
  pc = "write"
    => \A now1, now2 \in RunClocks : FilesWrittenAt(now1) = FilesWrittenAt(now2)

\* When the name of the current snapshot starts with a timestamp, the files
\* written are named {aid}__{timestamp}__{partition}.csv whatever the clock
\* reads
C26_HoldsForTimestampedSnapshots ==
  [][(pc = "write" /\ pc' = "line" /\ IsTimestamp(curr_path.stamp))
       => all_diff_files' =
            all_diff_files
              \o write_diff_csvs(diff, "diffs/" \o Aid \o "__" \o curr_path.stamp)]_vars

-----------------------------------------------------------------------------
(* Row order of the partitions (specification SpecDiff) *)

\* The rows of df that are in partition part, in the order df has them
InOrderOf(df, part) ==
  SelectSeq(df.rows, LAMBDA r : \E i \in DOMAIN part.rows : part.rows[i] = r)

\* C27: the same two sets of records give the same row order in every
\* partition whatever the row order of the captures: with prev and curr taken
\* as two captures that normalize_df leaves as they are, the captures with
\* their rows in the opposite order, normalized and diffed, give the rows of
\* each partition in the order the call returned them.
C27_OrderIndependentOfCaptureOrder ==
  (/\ diff_pc = "returned"
   /\ normalize_df(prev, PRIMARY_KEY_DEFAULT, ignore_fields) = prev
   /\ normalize_df(curr, PRIMARY_KEY_DEFAULT, ignore_fields) = curr)
    => LET again ==
             compute_diff(
               normalize_df(Reversed(prev), PRIMARY_KEY_DEFAULT, ignore_fields),
               normalize_df(Reversed(curr), PRIMARY_KEY_DEFAULT, ignore_fields),
               <<>>, ignore_fields)
       IN  /\ again.added.rows = diff.added.rows
           /\ again.removed.rows = diff.removed.rows
           /\ again.modified.rows = diff.modified.rows

\* compute_diff itself keeps the order of its arguments: added rows are in
\* the order of curr, removed rows in the order of prev, modified rows in the
\* order prev has their keys
C27_RelativeOrderKept ==
  diff_pc = "returned"
    => /\ diff.added.rows = InOrderOf(curr, diff.added)
       /\ diff.removed.rows = InOrderOf(prev, diff.removed)
       /\ KeySeq(diff.modified, PRIMARY_KEY_DEFAULT)
            = SelectSeq(KeySeq(prev, PRIMARY_KEY_DEFAULT),
                        LAMBDA k : k \in KeySet(diff.modified, PRIMARY_KEY_DEFAULT))

-----------------------------------------------------------------------------
(* compute_diff on any pair of frames (specification SpecDiffAny) *)

\* Frames with one row and no profile_url column
KeylessTables ==
  {[cols |-> {"name"}, rows |-> <<[name |-> v]>>] : v \in CellVals}

\* The frames compute_diff is called on: with the key column, or without it
DiffInputs ==
  KeylessTables
    \cup {t \in NormalizedTables : t.cols \subseteq {"profile_url", "name"}}

InitDiffAny ==
  /\ diff_pc = "call"
  /\ prev \in DiffInputs
  /\ curr \in DiffInputs
  /\ ignore_fields \in IgnoreChoices
  /\ diff = NoDiff
  /\ VerIdle
  /\ MainIdle
  /\ NormIdle
  /\ StoreIdle

SpecDiffAny == InitDiffAny /\ [][NextDiff]_vars

\* C28: compute_diff leaves the frames it is called on as they were: after
\* the call prev and curr have the columns and rows they had before it, also
\* when a non-empty frame lacks the primary-key column.
C28_DiffLeavesInputsUnchanged ==
  [][(diff_pc = "call" /\ diff_pc' = "returned")
       => (prev' = prev /\ curr' = curr)]_vars

\* normalize_df works on a copy: the caller's raw frame is as it was after
\* the call (specification SpecNorm)
C28_NormalizeLeavesRawUnchanged ==
  [][(norm_pc = "call" /\ norm_pc' = "returned") => raw' = raw]_vars

\* compute_diff leaves frames that have the key column as they were
C28_HoldsForKeyedFrames ==
  [][(/\ diff_pc = "call"
      /\ diff_pc' = "returned"
      /\ "profile_url" \in prev.cols
      /\ "profile_url" \in curr.cols)
       => (prev' = prev /\ curr' = curr)]_vars

-----------------------------------------------------------------------------
(* What verify_removed_rows returns, record by record (SpecVerify) *)

\* The input records of which list holds an output record, in the order of
\* the list
SourcesOf(list) ==
  [i \in DOMAIN list |->
     CHOOSE j \in DOMAIN removed_df.rows : MadeFrom(list[i], removed_df.rows[j])]

\* A sequence of row numbers that goes up
Ascending(s) == \A i, j \in DOMAIN s : i < j => s[i] < s[j]

VerifierStatuses ==
  {"confirmed_missing", "still_present", "check_error", "no_url",
   "not_supported"}

\* C29: when the loop of verify_removed_rows is through, every input record
\* has exactly one output record in confirmed or in still_present and none in
\* both; errors holds exactly the check_error records of confirmed; every
\* output record carries one of the five statuses, still_present only in
\* still_present; and each list has its records in the order of the input.
C29_NoRecordLostOrDuplicated ==
  (ver_pc = "returned" /\ ~IsEmpty(removed_df))
    => LET rows == removed_df.rows
           HeldBy(list, row) ==
             Cardinality({i \in DOMAIN list : MadeFrom(list[i], row)})
           Copies(row) ==
             Cardinality({j \in DOMAIN rows : rows[j] = row})
       IN  /\ Len(confirmed) + Len(still_present) = Len(rows)
           /\ \A j \in DOMAIN rows :
                /\ HeldBy(confirmed, rows[j]) + HeldBy(still_present, rows[j])
                     = Copies(rows[j])
                /\ Copies(rows[j]) = 1
                     => HeldBy(confirmed, rows[j]) = 0
                          \/ HeldBy(still_present, rows[j]) = 0
           /\ \A i \in DOMAIN confirmed : \A k \in DOMAIN still_present :
                confirmed[i] # still_present[k]
           /\ errors = SelectSeq(confirmed,
                                 LAMBDA rec : rec["double_check_status"] = "check_error")
           /\ \A i \in DOMAIN confirmed :
                /\ \E j \in DOMAIN rows : MadeFrom(confirmed[i], rows[j])
                /\ confirmed[i]["double_check_status"]
                     \in VerifierStatuses \ {"still_present"}
           /\ \A i \in DOMAIN still_present :
                /\ \E j \in DOMAIN rows : MadeFrom(still_present[i], rows[j])
                /\ still_present[i]["double_check_status"] = "still_present"
           /\ (\A i, j \in DOMAIN rows : i # j => rows[i] # rows[j])
                => /\ Ascending(SourcesOf(confirmed))
                   /\ Ascending(SourcesOf(still_present))
                   /\ Ascending(SourcesOf(errors))

\* A call returned with one record in still_present and one in confirmed and
\* errors
C29_Witness ==
  /\ ver_pc = "returned"
  /\ Len(removed_df.rows) = 2
  /\ Len(still_present) = 1
  /\ Len(confirmed) = 1
  /\ errors = confirmed
  /\ MadeFrom(confirmed[1], removed_df.rows[1])
  /\ MadeFrom(still_present[1], removed_df.rows[2])

-----------------------------------------------------------------------------
(* Files left by earlier calls of write_diff_csvs (specification SpecWrite) *)

\* C30: after any calls of write_diff_csvs, the directory holds the file of a
\* partition under the prefix of the latest call exactly when that partition
\* was not empty in the latest call, and the file then holds that partition;
\* no file of an earlier call is left for a partition that is empty now.
C30_OnlyLatestArtifactsRemain ==
  calls > 0
    => \A i \in DOMAIN PartitionOrder :
         LET part == PartitionOrder[i]
             name == ArtifactName(last_call.prefix, part)
         IN  /\ HasFile(store, name) <=> ~IsEmpty(last_call.diff[part])
             /\ HasFile(store, name)
                  => FileNamed(store, name).content.table = last_call.diff[part]

\* The file of a partition that is not empty in the latest call is there and
\* holds that partition
C30_LatestNonEmptyPartitionsWritten ==
  calls > 0
    => \A i \in DOMAIN PartitionOrder :
         LET part == PartitionOrder[i]
             name == ArtifactName(last_call.prefix, part)
         IN  ~IsEmpty(last_call.diff[part])
               => /\ HasFile(store, name)
                  /\ FileNamed(store, name).content.table = last_call.diff[part]

=============================================================================
